---- MODULE Spec2Model ----
(***************************************************************************)
(* gciso: the GameCube .iso reader.  IsoFile parses the disk header and    *)
(* the file system table (FST) of a container file into a registry         *)
(* path -> (offset, size); IsoInternalFileWrapper is a cursor over one     *)
(* registry entry; readFile / writeFile are the bounds-checked accessors.  *)
(*                                                                         *)
(* Bytes are the integers 0..255, byte strings are sequences of bytes.     *)
(* The container is kept sparsely: iso.size is the length of the file and  *)
(* iso.data maps the positions that hold a non-zero byte to that byte;     *)
(* every other position below iso.size holds 0.                            *)
(***************************************************************************)
EXTENDS Integers, Sequences, FiniteSets, TLC

VARIABLES
    iso,      \* the container file: [size, data]
    pc,       \* "header" | "fst" | "dir" | "ready" | "failed" | "hang"
    attrs,    \* the attributes set by _readDiskHeader / _readFst
    files,    \* IsoFile.files: the ordered registry, a sequence of [path, offset, size]
    stack,    \* the active _readDirectory calls that are directories, innermost last
    views,    \* the IsoInternalFileWrapper objects, by the name the run gives them
    writes,   \* number of successful writeFile calls so far
    dol,      \* the DolFile object, once one is constructed
    gen,      \* the generator object the last listDir call returned
    last      \* the last call made on the loaded IsoFile and what it gave back

vars == <<iso, pc, attrs, files, stack, views, writes, dol, gen, last>>

-----------------------------------------------------------------------------
(* Bounds of the model *)

MaxWrites == 1     \* successful writeFile calls in a run
MaxSlack == 2      \* how far a cursor is moved out of [0, size]
FstEntries == 5    \* entries of the enumerated file system tables, root included
MaxCount == 2      \* largest count handed to read / readFile
MaxOffset == 2     \* largest offset handed to readFile / writeFile
MaxAddr == 10      \* largest file offset / memory address handed to a DolFile query
MaxPrefix == 4     \* longest head of a registered path asked about as a directory
MaxRead == 4       \* most bytes asked of the container by one followed read
MaxDepth == 4      \* most activations of one isMappedContiguous call that are followed

-----------------------------------------------------------------------------
(* Program constants *)

_FST_ENTRY_LENGTH == 12      \* 0xC
GameNameOffset == 32         \* 0x20
BootInfoOffset == 1056       \* 0x420
BootBinSize == 1088          \* 0x440
Bi2BinOffset == 1088         \* 0x440
Bi2BinSize == 8192           \* 0x2000
appLoaderOffset == 9280      \* 0x2440
AppLoaderCodeDelta == 32     \* 0x20
Slash == 47                  \* b"/"[0]

BootBin == <<98, 111, 111, 116, 46, 98, 105, 110>>              \* b"boot.bin"
Bi2Bin == <<98, 105, 50, 46, 98, 105, 110>>                     \* b"bi2.bin"
FstBin == <<102, 115, 116, 46, 98, 105, 110>>                   \* b"fst.bin"
StartDol == <<115, 116, 97, 114, 116, 46, 100, 111, 108>>       \* b"start.dol"
AppldrBin == <<97, 112, 112, 108, 100, 114, 46, 98, 105, 110>>  \* b"appldr.bin"

-----------------------------------------------------------------------------
(* The container file: Python's file object opened "r+b" *)

Min(a, b) == IF a < b THEN a ELSE b
Max(a, b) == IF a > b THEN a ELSE b

\* the byte at position p < c.size
ByteAt(c, p) == IF p \in DOMAIN c.data THEN c.data[p] ELSE 0

\* The file object has one position, which every seek, read and write of
\* every caller moves.  A container that is opened with Opened carries it as
\* c.pos; the other containers are read and written by position only.
HasPos(c) == "pos" \in DOMAIN c

\* open(isoPath, "r+b"): the handle starts at position 0, not closed
Opened(c) == [size |-> c.size, data |-> c.data, pos |-> 0, closed |-> FALSE]

\* file.closed
Closed(c) == "closed" \in DOMAIN c /\ c.closed

\* file.close(): every later seek, read and write raises ValueError, so the
\* position of a closed handle is never looked at again
Close(c) ==
    [size |-> c.size, data |-> c.data, pos |-> IF HasPos(c) THEN c.pos ELSE 0,
     closed |-> TRUE]

\* a seek that leaves the handle where it is
Seek_Nowhere(c, p) == c

\* file.seek(p)
Seek(c, p) == IF HasPos(c) THEN [c EXCEPT !.pos = p] ELSE c

\* where the handle stands after file.seek(p)
Position(c, p) == IF HasPos(c) THEN c.pos ELSE p

\* where the handle stands after file.read(n) at position p: reads end at the
\* end of the file, a read at or after the end moves nothing
AfterRead(c, p, n) == Max(p, Min(p + n, c.size))

\* file.seek(pos); file.read(n) with pos >= 0, n >= 0: the bytes that exist in
\* [pos, pos+n); fewer than n at the end of the file
FileRead(c, pos, n) ==
    LET end == Min(pos + n, c.size)
    IN  [i \in 1..(end - pos) |-> ByteAt(c, pos + i - 1)]

\* file.read(n) at position pos for any n: n = -1 reads to the end of the
\* file, a smaller n raises ValueError; [err, out, pos]
HandleRead(c, pos, n) ==
    IF n < 0 - 1 THEN [err |-> "ValueError", out |-> <<>>, pos |-> pos]
    ELSE IF n = 0 - 1
    THEN [err |-> "none", out |-> FileRead(c, pos, c.size - pos), pos |-> Max(pos, c.size)]
    ELSE [err |-> "none", out |-> FileRead(c, pos, n), pos |-> AfterRead(c, pos, n)]

\* a bytes object kept the way the container is: its length and its
\* non-zero bytes by position
TableOf(bs) ==
    [size |-> Len(bs),
     data |-> [p \in {j - 1 : j \in {i \in DOMAIN bs : bs[i] # 0}} |-> bs[p + 1]]]

\* b[lo:hi] of a bytes object, 0 <= lo <= hi
Slice(b, lo, hi) == TableOf(FileRead(b, lo, hi - lo))

\* file.seek(pos); file.write(data): overwrites in place; a write that ends after
\* the end of the file extends it, the gap (if any) reading as zero bytes
FileWrite(c, pos, data) ==
    IF Len(data) = 0 THEN Seek(c, pos)
    ELSE LET new(p) == IF p >= pos /\ p < pos + Len(data)
                       THEN data[p - pos + 1] ELSE ByteAt(c, p)
             cand == DOMAIN c.data \cup (pos..(pos + Len(data) - 1))
         IN  Seek([c EXCEPT !.size = Max(c.size, pos + Len(data)),
                            !.data = [p \in {q \in cand : new(q) # 0} |-> new(p)]],
                  pos + Len(data))

\* struct.unpack(">I", b): big-endian unsigned 32 bit
UnpackU32(b) == ((b[1] * 256 + b[2]) * 256 + b[3]) * 256 + b[4]

\* _readString: the bytes from offset up to the first zero byte.  At the end of
\* the file read(1) gives b"", which is not b"\0": the loop never ends.
RECURSIVE ReadStringFrom(_, _, _)
ReadStringFrom(c, p, s) ==
    IF p >= c.size THEN [hang |-> TRUE, s |-> s]
    ELSE IF ByteAt(c, p) = 0 THEN [hang |-> FALSE, s |-> s]
    ELSE ReadStringFrom(c, p + 1, Append(s, ByteAt(c, p)))

_readString(c, offset) == ReadStringFrom(c, offset, <<>>)

\* where the handle stands after _readString(offset) gave r: after the zero
\* byte, or at the end of the file (or at offset, if that is later) for good
AfterString(c, offset, r) ==
    IF r.hang THEN Max(offset, c.size) ELSE offset + Len(r.s) + 1

-----------------------------------------------------------------------------
(* IsoFile.files, an OrderedDict: assignment to a known key keeps its place *)

FilesHas(fs, path) == \E k \in 1..Len(fs) : fs[k].path = path

FilesIndex(fs, path) == CHOOSE k \in 1..Len(fs) : fs[k].path = path

FilesGet(fs, path) == fs[FilesIndex(fs, path)]

\* FilesSet that puts a new key first
FilesSet_NewFirst(fs, path, offset, size) ==
    LET e == [path |-> path, offset |-> offset, size |-> size]
    IN  IF FilesHas(fs, path) THEN [fs EXCEPT ![FilesIndex(fs, path)] = e]
        ELSE <<e>> \o fs

FilesSet(fs, path, offset, size) ==
    LET e == [path |-> path, offset |-> offset, size |-> size]
    IN  IF FilesHas(fs, path)
        THEN [fs EXCEPT ![FilesIndex(fs, path)] = e]
        ELSE Append(fs, e)

-----------------------------------------------------------------------------
(* Disk images the model is run on.  An image is described by its header    *)
(* fields and its FST entries and is laid out byte by byte as the format    *)
(* says (big-endian fields, 12-byte FST entries, zero-terminated names).    *)

PackU32(v) == <<(v \div 16777216) % 256, (v \div 65536) % 256, (v \div 256) % 256, v % 256>>

Cells(pos, bytes) == [p \in pos..(pos + Len(bytes) - 1) |-> bytes[p - pos + 1]]

RECURSIVE CellsOfAll(_)
CellsOfAll(parts) ==
    IF parts = <<>> THEN <<>>
    ELSE Cells(parts[1].pos, parts[1].bytes) @@ CellsOfAll(Tail(parts))

\* offset of entry k's name in the string table: the names lie one after the
\* other, each followed by its zero byte
RECURSIVE NameOffsetOf(_, _)
NameOffsetOf(fst, k) ==
    IF k = 1 THEN 0 ELSE NameOffsetOf(fst, k - 1) + Len(fst[k - 1].name) + 1

FstEntryBytes(fst, k) ==
    <<fst[k].isDir>> \o SubSeq(PackU32(NameOffsetOf(fst, k)), 2, 4)
        \o PackU32(fst[k].offset) \o PackU32(fst[k].length)

\* bytes of the data areas: never zero, different at neighbouring positions
Pattern(p) == 1 + (p % 251)

MkImage(d) ==
    LET n == Len(d.fst)
        strTab == d.fstOffset + n * _FST_ENTRY_LENGTH
        parts ==
            <<[pos |-> 0, bytes |-> <<71, 65, 76, 69, 48, 49, 0, 2>>],
              [pos |-> GameNameOffset, bytes |-> <<83, 83, 66>>],
              [pos |-> BootInfoOffset,
               bytes |-> PackU32(d.dolOffset) \o PackU32(d.fstOffset)
                         \o PackU32(d.fstSize) \o PackU32(d.fstSize)],
              [pos |-> appLoaderOffset,
               bytes |-> <<50, 48, 48, 49, 47, 49, 49, 47, 49, 52, 0, 0, 0, 0, 0, 0>>
                         \o PackU32(12544) \o PackU32(d.appSize) \o PackU32(0)]>>
            \o [k \in 1..n |-> [pos |-> d.fstOffset + (k - 1) * _FST_ENTRY_LENGTH,
                                bytes |-> FstEntryBytes(d.fst, k)]]
            \o [k \in 1..n |-> [pos |-> strTab + NameOffsetOf(d.fst, k),
                                bytes |-> d.fst[k].name]]
        fixed == CellsOfAll(parts)
        fill == {p \in (appLoaderOffset + AppLoaderCodeDelta)..(d.fstOffset - 1) : TRUE}
                \cup (d.dataBase..(d.size - 1))
        all == (DOMAIN fixed \cup fill) \cap (0..(d.size - 1))
        byte(p) == IF p \in DOMAIN fixed THEN fixed[p] ELSE Pattern(p)
    IN  [size |-> d.size, data |-> [p \in {q \in all : byte(q) # 0} |-> byte(p)]]

\* the images: the FST entries after the root are given by `shape`, entry k
\* named by the one letter chr(96+k); file k's data lies in its own 4-byte slot
AppCodeBase == appLoaderOffset + AppLoaderCodeDelta

EntryName(k) == <<96 + k>>

FileSizeOf(k) == <<3, 2, 0, 1, 4, 2>>[((k - 1) % 6) + 1]

Disk(shape, names, rootIsDir, rootLen, dolDelta, appSize, cut) ==
    LET n == Len(shape) + 1
        fstOffset == AppCodeBase + 8
        RECURSIVE total(_)
        total(k) == IF k = 0 THEN 1 ELSE total(k - 1) + Len(names[k]) + 1
        fstSize == n * _FST_ENTRY_LENGTH + total(n - 1)
        dataBase == fstOffset + fstSize
        fst == <<[isDir |-> rootIsDir, name |-> <<>>, offset |-> 0, length |-> rootLen]>>
               \o [k \in 1..(n - 1) |->
                     [isDir |-> shape[k].isDir, name |-> names[k],
                      offset |-> IF shape[k].isDir # 0 THEN 0 ELSE dataBase + 4 * (k - 1),
                      length |-> shape[k].length]]
    IN  MkImage([dolOffset |-> fstOffset - dolDelta, fstOffset |-> fstOffset,
                 fstSize |-> fstSize, appSize |-> appSize, fst |-> fst,
                 dataBase |-> dataBase, size |-> dataBase + 4 * (n - 1) - cut])

FileEntry(k) == [isDir |-> 0, length |-> FileSizeOf(k)]
DirEntry(bound) == [isDir |-> 1, length |-> bound]

LetterNames(n) == [k \in 1..n |-> EntryName(k)]

\* every table of FstEntries entries: each entry after the root a file or a
\* directory with any bound from 0 to one past the table
FstShapes ==
    {sh \in [1..(FstEntries - 1) -> {FileEntry(0)} \cup {DirEntry(b) : b \in 0..(FstEntries + 1)}] :
        TRUE}

ShapeOf(sh) ==
    [k \in 1..(FstEntries - 1) |-> IF sh[k].isDir = 0 THEN FileEntry(k) ELSE sh[k]]

\* root, a/ {b, c}, d, e: files of sizes 2, 0, 1, 4
TreeShape == <<DirEntry(4), FileEntry(2), FileEntry(3), FileEntry(4), FileEntry(5)>>

\* one table under headers that differ in the place of the executable, the
\* size of the loader code, the bytes cut off the end and the root entry
HeaderImages ==
    {Disk(TreeShape, LetterNames(5), 1, 6, d, a, c) :
            d \in {4, 0, -4}, a \in {0, 2}, c \in {0, 3, 6}}
    \cup {Disk(TreeShape, LetterNames(5), r, l, 4, 2, 0) : r \in {0, 1}, l \in {6, 8}}

LoadImages ==
    {Disk(ShapeOf(sh), LetterNames(FstEntries - 1), 1, FstEntries, 4, 2, 0) : sh \in FstShapes}
    \cup HeaderImages

\* the images the calls on a loaded IsoFile are made on
FileImages ==
    {Disk(TreeShape, LetterNames(5), 1, 6, 4, 2, 0),
     Disk(TreeShape, LetterNames(5), 1, 6, -4, 0, 3)}

\* root, a/ { b/ { c }, d }, e
NestedShape == <<DirEntry(5), DirEntry(4), FileEntry(3), FileEntry(4), FileEntry(5)>>

\* the images the directory queries are made on
DirImages == FileImages \cup {Disk(NestedShape, LetterNames(5), 1, 6, 4, 2, 0)}

-----------------------------------------------------------------------------
(* Values handed to and back from the calls *)

Bytes(s) == [bytes |-> TRUE, s |-> s]     \* a Python bytes object
Str(s) == [bytes |-> FALSE, s |-> s]      \* a Python str: not bytes
NoneCount == [none |-> TRUE, n |-> 0]     \* count = None
Count(n) == [none |-> FALSE, n |-> n]

NoAttrs ==
    [gameCode |-> <<>>, makerCode |-> <<>>, diskId |-> 0, version |-> 0,
     gameName |-> <<>>, dolOffset |-> 0, fstOffset |-> 0, fstSize |-> 0,
     maxFstSize |-> 0, dolSize |-> 0, apploaderDate |-> <<>>,
     apploaderEntryPoint |-> 0, apploaderCodeSize |-> 0,
     apploaderTrailerSize |-> 0, appLoaderCodeOffset |-> 0,
     numFstEntries |-> 0, stringTableOffset |-> 0]

NoView == [open |-> FALSE, offset |-> 0, size |-> 0, cursor |-> 0]

\* a DolFile.Section, and the None a lookup gives when there is none
NoSection == [none |-> TRUE, index |-> 0, type |-> "none", dolOffset |-> 0,
              endDolOffset |-> 0, memAddress |-> 0, endMemAddress |-> 0, size |-> 0]

\* an int or None
None == [none |-> TRUE, n |-> 0]
Some(n) == [none |-> FALSE, n |-> n]

\* no generator yet; a generator is "created" by the call, "suspended" at a
\* yield and "done" once it has raised
NoGen == [state |-> "none", arg |-> Bytes(<<>>), path |-> <<>>, k |-> 0,
          out |-> <<>>, err |-> "none"]

NoCall ==
    [op |-> "none", v |-> 0, path |-> Bytes(<<>>), offset |-> 0,
     count |-> NoneCount, whence |-> 0, data |-> Bytes(<<>>), cur0 |-> 0,
     ret |-> 0, out |-> <<>>, err |-> "none",
     end |-> 0, section |-> NoSection, bool |-> FALSE, opt |-> None,
     starts |-> <<>>, active |-> FALSE,
     banner |-> [built |-> FALSE, data |-> [size |-> 0, data |-> <<>>],
                 magicBytes |-> <<>>, pixelData |-> [size |-> 0, data |-> <<>>],
                 single |-> FALSE, meta |-> <<>>]]

Failed(op, e) == [NoCall EXCEPT !.op = op, !.err = e]

-----------------------------------------------------------------------------
(* IsoFile.__init__: _readDiskHeader, then _readFst *)

_readDiskHeader ==
    /\ pc = "header"
    /\ LET head == FileRead(iso, 0, 8)
           name == _readString(iso, GameNameOffset)
           boot == FileRead(iso, BootInfoOffset, 16)
           dolOffset == UnpackU32(SubSeq(boot, 1, 4))
           fstOffset == UnpackU32(SubSeq(boot, 5, 8))
           fstSize == UnpackU32(SubSeq(boot, 9, 12))
           app == FileRead(iso, appLoaderOffset, 28)
           codeSize == UnpackU32(SubSeq(app, 21, 24))
           codeOffset == appLoaderOffset + AppLoaderCodeDelta
           a1 == [attrs EXCEPT
                     !.gameCode = SubSeq(head, 1, 4), !.makerCode = SubSeq(head, 5, 6),
                     !.diskId = head[7], !.version = head[8]]
           a2 == [a1 EXCEPT !.gameName = name.s]
           a3 == [a2 EXCEPT
                     !.dolOffset = dolOffset, !.fstOffset = fstOffset,
                     !.fstSize = fstSize,
                     !.maxFstSize = UnpackU32(SubSeq(boot, 13, 16)),
                     !.dolSize = fstOffset - dolOffset]
           a4 == [a3 EXCEPT
                     !.apploaderDate = SubSeq(app, 1, 10),
                     !.apploaderEntryPoint = UnpackU32(SubSeq(app, 17, 20)),
                     !.apploaderCodeSize = codeSize,
                     !.apploaderTrailerSize = UnpackU32(SubSeq(app, 25, 28)),
                     !.appLoaderCodeOffset = codeOffset]
           files4 == FilesSet(FilesSet(FilesSet(FilesSet(files,
                         BootBin, 0, BootBinSize),
                         Bi2Bin, Bi2BinOffset, Bi2BinSize),
                         FstBin, fstOffset, fstSize),
                         StartDol, dolOffset, fstOffset - dolOffset)
       IN  IF Len(head) < 8
           THEN \* struct.unpack(">4s2sBB", ...) of a short read
                /\ pc' = "failed" /\ last' = Failed("load", "struct.error")
                /\ iso' = Seek(iso, AfterRead(iso, 0, 8))
                /\ UNCHANGED <<attrs, files>>
           ELSE IF name.hang
           THEN /\ pc' = "hang" /\ last' = Failed("load", "hang")
                /\ iso' = Seek(iso, AfterString(iso, GameNameOffset, name))
                /\ attrs' = a1 /\ UNCHANGED files
           ELSE IF Len(boot) < 16
           THEN /\ pc' = "failed" /\ last' = Failed("load", "struct.error")
                /\ iso' = Seek(iso, AfterRead(iso, BootInfoOffset, 16))
                /\ attrs' = a2 /\ UNCHANGED files
           ELSE IF Len(app) < 28
           THEN /\ pc' = "failed" /\ last' = Failed("load", "struct.error")
                /\ iso' = Seek(iso, AfterRead(iso, appLoaderOffset, 28))
                /\ attrs' = a3 /\ files' = files4
           ELSE /\ pc' = "fst" /\ last' = NoCall
                /\ iso' = Seek(iso, AfterRead(iso, appLoaderOffset, 28))
                /\ attrs' = a4
                /\ files' = FilesSet(files4, AppldrBin, codeOffset, codeSize)
    /\ UNCHANGED <<stack, views, writes, dol, gen>>

\* the reads at the head of _readDirectory(path, index): the 12 bytes of FST
\* entry `index`, then its name from the string table
FstEntry(c, fstOffset, strTab, index) ==
    LET p == fstOffset + _FST_ENTRY_LENGTH * index
        b == FileRead(c, p, _FST_ENTRY_LENGTH)
        nameOff == UnpackU32(<<0>> \o SubSeq(b, 2, 4))
        nm == IF index = 0 THEN [hang |-> FALSE, s |-> <<>>]
              ELSE _readString(c, strTab + nameOff)
    IN  IF Len(b) = 0
        THEN \* self.file.read(1)[0] at the end of the file
             [err |-> "IndexError", pos |-> p]
        ELSE IF Len(b) < _FST_ENTRY_LENGTH
        THEN \* struct.unpack of a short field
             [err |-> "struct.error", pos |-> c.size]
        ELSE IF nm.hang
        THEN [err |-> "hang", pos |-> AfterString(c, strTab + nameOff, nm)]
        ELSE [err |-> "none", isDir |-> b[1] # 0,
              pos |-> IF index = 0 THEN p + _FST_ENTRY_LENGTH
                      ELSE AfterString(c, strTab + nameOff, nm),
              fileNameOffset |-> nameOff,
              offset |-> UnpackU32(SubSeq(b, 5, 8)),
              length |-> UnpackU32(SubSeq(b, 9, 12)),
              name |-> nm.s]

\* _readDirectory(path, index) up to its first inner call or its return, made
\* with the directory calls in stk active: the next pc, registry and stack.
\* A file returns 1, which the caller's loop adds to its i.
_readDirectory(path, index, stk) ==
    LET e == FstEntry(iso, attrs'.fstOffset, attrs'.stringTableOffset, index)
        filePath == path \o e.name
        stripped == IF filePath[1] = Slash THEN Tail(filePath) ELSE filePath
    IN  /\ iso' = Seek(iso, e.pos)
        /\ IF e.err = "hang"
           THEN /\ pc' = "hang" /\ last' = Failed("load", "hang")
                /\ stack' = stk /\ UNCHANGED files
           ELSE IF e.err # "none"
           THEN /\ pc' = "failed" /\ last' = Failed("load", e.err)
                /\ stack' = stk /\ UNCHANGED files
           ELSE IF e.isDir
           THEN /\ pc' = "dir" /\ last' = NoCall
                /\ stack' = Append(stk, [path |-> path \o e.name \o <<Slash>>,
                                         index |-> index, i |-> index + 1,
                                         length |-> e.length])
                /\ UNCHANGED files
           ELSE IF filePath = <<>>
           THEN \* filePath[0] of an empty path
                /\ pc' = "failed" /\ last' = Failed("load", "IndexError")
                /\ stack' = stk /\ UNCHANGED files
           ELSE /\ files' = FilesSet(files, stripped, e.offset, e.length)
                /\ last' = NoCall
                /\ IF stk = <<>>
                   THEN pc' = "ready" /\ stack' = stk
                   ELSE /\ pc' = "dir"
                        /\ stack' = [stk EXCEPT ![Len(stk)].i = @ + 1]

_readFst ==
    /\ pc = "fst"
    /\ LET b == FileRead(iso, attrs.fstOffset + 8, 4)
       IN  IF Len(b) < 4
           THEN /\ pc' = "failed" /\ last' = Failed("load", "struct.error")
                /\ iso' = Seek(iso, AfterRead(iso, attrs.fstOffset + 8, 4))
                /\ UNCHANGED <<attrs, files, stack>>
           ELSE /\ attrs' = [attrs EXCEPT
                        !.numFstEntries = UnpackU32(b),
                        !.stringTableOffset =
                            attrs.fstOffset + UnpackU32(b) * _FST_ENTRY_LENGTH]
                /\ _readDirectory(<<>>, 0, <<>>)
    /\ UNCHANGED <<views, writes, dol, gen>>

\* the loop of a directory call takes its next turn: i < length
ReadDirectoryCall ==
    /\ pc = "dir"
    /\ stack # <<>>
    /\ LET f == stack[Len(stack)]
       IN  /\ f.i < f.length
           /\ attrs' = attrs
           /\ _readDirectory(f.path, f.i, stack)
    /\ UNCHANGED <<views, writes, dol, gen>>

\* the value a finished directory call hands back to its caller
DirectoryReturnValue(f) == f.length

\* the loop of the innermost directory call is over: it returns, and the
\* caller's loop adds the returned value to its i
ReadDirectoryReturn ==
    /\ pc = "dir"
    /\ stack # <<>>
    /\ LET f == stack[Len(stack)]
           rest == SubSeq(stack, 1, Len(stack) - 1)
       IN  /\ f.i >= f.length
           /\ IF rest = <<>>
              THEN pc' = "ready" /\ stack' = rest
              ELSE /\ pc' = "dir"
                   /\ stack' = [rest EXCEPT ![Len(rest)].i = @ + DirectoryReturnValue(f)]
    /\ last' = NoCall
    /\ UNCHANGED <<iso, attrs, files, views, writes, dol, gen>>

-----------------------------------------------------------------------------
(* IsoFile: the bounds-checked accessors *)

\* Lookup without _checkPath: a str is looked up and is no key of the registry
Lookup_TypeUnchecked(path) ==
    IF ~path.bytes \/ ~FilesHas(files, path.s) THEN [err |-> "KeyError"]
    ELSE [err |-> "none", offset |-> FilesGet(files, path.s).offset,
          size |-> FilesGet(files, path.s).size]

\* _checkPath, then self.files[path]
Lookup(path) ==
    IF ~path.bytes THEN [err |-> "TypeError"]
    ELSE IF ~FilesHas(files, path.s) THEN [err |-> "KeyError"]
    ELSE [err |-> "none", offset |-> FilesGet(files, path.s).offset,
          size |-> FilesGet(files, path.s).size]

\* _readFile(fileOffset, fileSize, offset, count) on container c
ReadCount(fileSize, offset, count) ==
    IF count.none \/ count.n < 0 THEN fileSize - offset ELSE count.n

\* ReadError with the bound test off by one: offset = fileSize is let through
ReadError_OffByOne(fileSize, offset, count) ==
    IF offset < 0 THEN "IndexError"
    ELSE IF offset > fileSize THEN "IndexError"
    ELSE IF offset + ReadCount(fileSize, offset, count) > fileSize THEN "ValueError"
    ELSE "none"

\* the exception _readFile raises, or "none"
ReadError(fileSize, offset, count) ==
    IF offset < 0 THEN "IndexError"
    ELSE IF offset >= fileSize THEN "IndexError"
    ELSE IF offset + ReadCount(fileSize, offset, count) > fileSize THEN "ValueError"
    ELSE "none"

\* [err, out, iso]: iso is the container the call leaves, with the handle
\* after the bytes read; on a closed handle the seek raises; the bytes are read where the handle stands after
\* self.file.seek(fileOffset + offset)
_readFile(c, fileOffset, fileSize, offset, count) ==
    LET sought == Seek(c, fileOffset + offset)
        from == Position(sought, fileOffset + offset)
        n == ReadCount(fileSize, offset, count)
    IN  IF ReadError(fileSize, offset, count) # "none"
        THEN [err |-> ReadError(fileSize, offset, count), out |-> <<>>, iso |-> c]
        ELSE IF Closed(c)
        THEN \* self.file.seek raises "seek of closed file"
             [err |-> "ValueError", out |-> <<>>, iso |-> c]
        ELSE [err |-> "none", out |-> FileRead(sought, from, n),
              iso |-> Seek(sought, AfterRead(sought, from, n))]

\* the reads the model follows: those that ask the container for few bytes
Followed(fileSize, offset, count) ==
    ReadError(fileSize, offset, count) = "none"
        => ReadCount(fileSize, offset, count) <= MaxRead

\* _writeFile that seeks to the start of the file, not to fileOffset + offset
_writeFile_AtFileStart(c, fileOffset, fileSize, offset, data) ==
    IF offset < 0 THEN [err |-> "IndexError"]
    ELSE IF offset >= fileSize THEN [err |-> "IndexError"]
    ELSE IF ~data.bytes THEN [err |-> "TypeError"]
    ELSE IF offset + Len(data.s) > fileSize THEN [err |-> "ValueError"]
    ELSE [err |-> "none", ret |-> Len(data.s),
          iso |-> FileWrite(c, fileOffset, data.s)]

\* _writeFile(fileOffset, fileSize, offset, data) on container c
_writeFile(c, fileOffset, fileSize, offset, data) ==
    IF offset < 0 THEN [err |-> "IndexError"]
    ELSE IF offset >= fileSize THEN [err |-> "IndexError"]
    ELSE IF ~data.bytes THEN [err |-> "TypeError"]
    ELSE IF offset + Len(data.s) > fileSize THEN [err |-> "ValueError"]
    ELSE IF Closed(c) THEN [err |-> "ValueError"]
    ELSE [err |-> "none", ret |-> Len(data.s),
          iso |-> FileWrite(c, fileOffset + offset, data.s)]

readFile(path, offset, count) ==
    /\ pc = "ready"
    /\ LET f == Lookup(path)
           r == _readFile(iso, f.offset, f.size, offset, count)
           call == [NoCall EXCEPT !.op = "readFile", !.path = path,
                                  !.offset = offset, !.count = count]
       IN  IF f.err # "none"
           THEN last' = [call EXCEPT !.err = f.err] /\ iso' = iso
           ELSE /\ Followed(f.size, offset, count)
                /\ last' = [call EXCEPT !.err = r.err, !.out = r.out]
                /\ iso' = r.iso
    /\ UNCHANGED <<pc, attrs, files, stack, views, writes, dol, gen>>

writeFile(path, offset, data) ==
    /\ pc = "ready"
    /\ writes < MaxWrites
    /\ LET f == Lookup(path)
           r == _writeFile(iso, f.offset, f.size, offset, data)
           call == [NoCall EXCEPT !.op = "writeFile", !.path = path,
                                  !.offset = offset, !.data = data]
       IN  IF f.err # "none"
           THEN /\ last' = [call EXCEPT !.err = f.err]
                /\ UNCHANGED <<iso, writes>>
           ELSE IF r.err # "none"
           THEN /\ last' = [call EXCEPT !.err = r.err]
                /\ UNCHANGED <<iso, writes>>
           ELSE /\ last' = [call EXCEPT !.ret = r.ret]
                /\ iso' = r.iso
                /\ writes' = writes + 1
    /\ UNCHANGED <<pc, attrs, files, stack, views, dol, gen>>

open(v, path) ==
    /\ pc = "ready"
    /\ LET f == Lookup(path)
           call == [NoCall EXCEPT !.op = "open", !.v = v, !.path = path]
       IN  IF f.err # "none"
           THEN last' = [call EXCEPT !.err = f.err] /\ views' = views
           ELSE /\ last' = call
                /\ views' = [views EXCEPT ![v] =
                        [open |-> TRUE, offset |-> f.offset, size |-> f.size,
                         cursor |-> 0]]
    /\ UNCHANGED <<iso, pc, attrs, files, stack, writes, dol, gen>>

-----------------------------------------------------------------------------
(* IsoFile: the directory queries *)

StartsWith(s, prefix) ==
    Len(prefix) <= Len(s) /\ SubSeq(s, 1, Len(prefix)) = prefix

\* WithSlash that appends nothing
WithSlash_Never(d) == d

\* dirPath with b"/" appended unless it ends with one (dirPath not empty)
WithSlash(d) == IF d[Len(d)] # Slash THEN d \o <<Slash>> ELSE d

\* fileInDir(filePath, dirPath): [err, val].  `dirPath == "/"` compares the
\* bytes dirPath with a str, which are never equal
fileInDir(filePath, dirPath) ==
    IF ~filePath.bytes \/ ~dirPath.bytes THEN [err |-> "TypeError", val |-> FALSE]
    ELSE IF dirPath.s = <<>> THEN [err |-> "IndexError", val |-> FALSE]
    ELSE IF Bytes(WithSlash(dirPath.s)) = Str(<<Slash>>) THEN [err |-> "none", val |-> TRUE]
    ELSE [err |-> "none", val |-> StartsWith(filePath.s, WithSlash(dirPath.s))]

\* the loop of listDir from registry entry k on: the first entry that
\* fileInDir lets through, 0 if the loop ends without one; path ends with '/'
RECURSIVE NextInDir(_, _, _)
NextInDir(fs, k, path) ==
    IF k > Len(fs) THEN 0
    ELSE IF fileInDir(Bytes(fs[k].path), Bytes(path)).val THEN k
    ELSE NextInDir(fs, k + 1, path)

\* listDir(path): the function holds a yield, so the call runs none of its
\* body; it returns a generator object and raises nothing
listDir(path) ==
    /\ pc = "ready"
    /\ last' = [NoCall EXCEPT !.op = "listDir", !.path = path]
    /\ gen' = [NoGen EXCEPT !.state = "created", !.arg = path]
    /\ UNCHANGED <<iso, pc, attrs, files, stack, views, writes, dol>>

\* the generator run from where it stands to its next yield, its end or its
\* exception: [state, path, k, err, out]
Resume(g, fs) ==
    LET path == IF g.state = "created" THEN WithSlash(g.arg.s) ELSE g.path
        k == NextInDir(fs, g.k + 1, path)
    IN  IF g.state = "done" THEN [g EXCEPT !.err = "StopIteration"]
        ELSE IF g.state = "created" /\ ~g.arg.bytes
        THEN [g EXCEPT !.state = "done", !.err = "TypeError"]
        ELSE IF g.state = "created" /\ g.arg.s = <<>>
        THEN [g EXCEPT !.state = "done", !.err = "IndexError"]
        ELSE IF k = 0
        THEN [g EXCEPT !.state = "done", !.path = path, !.err = "StopIteration"]
        ELSE [g EXCEPT !.state = "suspended", !.path = path, !.k = k, !.err = "none",
                       !.out = Append(g.out,
                                      SubSeq(fs[k].path, Len(path) + 1, Len(fs[k].path)))]

\* next(g) on the generator of the last listDir call: _checkPath and the
\* slash run at the first next; each next gives one name or raises
next ==
    /\ pc = "ready"
    /\ gen.state # "none"
    /\ gen' = Resume(gen, files)
    /\ last' = [NoCall EXCEPT !.op = "next", !.path = gen.arg,
                              !.err = Resume(gen, files).err,
                              !.out = IF Resume(gen, files).err = "none"
                                      THEN <<Resume(gen, files).out[Len(Resume(gen, files).out)]>>
                                      ELSE <<>>]
    /\ UNCHANGED <<iso, pc, attrs, files, stack, views, writes, dol>>

\* any(fileInDir(file, path) for file in files) from registry entry k on
RECURSIVE AnyInDir(_, _, _)
AnyInDir(fs, k, path) ==
    IF k > Len(fs) THEN [err |-> "none", val |-> FALSE]
    ELSE IF fileInDir(Bytes(fs[k].path), path).err # "none"
         THEN fileInDir(Bytes(fs[k].path), path)
         ELSE IF fileInDir(Bytes(fs[k].path), path).val
              THEN [err |-> "none", val |-> TRUE]
              ELSE AnyInDir(fs, k + 1, path)

isDir(path) ==
    /\ pc = "ready"
    /\ LET call == [NoCall EXCEPT !.op = "isDir", !.path = path]
           r == AnyInDir(files, 1, path)
       IN  IF ~path.bytes THEN last' = [call EXCEPT !.err = "TypeError"]
           ELSE last' = [call EXCEPT !.err = r.err, !.bool = r.val]
    /\ UNCHANGED <<iso, pc, attrs, files, stack, views, writes, dol, gen>>

-----------------------------------------------------------------------------
(* IsoInternalFileWrapper *)

\* the cursors the model follows: near the start and near the end of the file
InWindow(c, size) ==
    /\ c >= 0 - MaxSlack
    /\ c <= Max(size, 0) + MaxSlack
    /\ c <= 2 * MaxSlack \/ c >= size - 2 * MaxSlack

\* SeekTarget with whence 2 counting back from the end: size - offset
SeekTarget_BackFromEnd(w, offset, whence) ==
    IF whence = 0 THEN offset
    ELSE IF whence = 1 THEN w.cursor + offset
    ELSE w.size - offset

\* the position seek(offset, whence) asks for
SeekTarget(w, offset, whence) ==
    IF whence = 0 THEN offset
    ELSE IF whence = 1 THEN w.cursor + offset
    ELSE w.size + offset

seek(v, offset, whence) ==
    /\ pc = "ready"
    /\ views[v].open
    /\ LET w == views[v]
           call == [NoCall EXCEPT !.op = "seek", !.v = v, !.offset = offset,
                                  !.whence = whence, !.cur0 = w.cursor]
       IN  IF whence \in {0, 1, 2}
           THEN /\ InWindow(SeekTarget(w, offset, whence), w.size)
                /\ views' = [views EXCEPT ![v].cursor = SeekTarget(w, offset, whence)]
                /\ last' = [call EXCEPT !.ret = SeekTarget(w, offset, whence)]
           ELSE /\ views' = views
                /\ last' = [call EXCEPT !.err = "ValueError"]
    /\ UNCHANGED <<iso, pc, attrs, files, stack, writes, dol, gen>>

tell(v) ==
    /\ pc = "ready"
    /\ views[v].open
    /\ last' = [NoCall EXCEPT !.op = "tell", !.v = v, !.cur0 = views[v].cursor,
                              !.ret = views[v].cursor]
    /\ UNCHANGED <<iso, pc, attrs, files, stack, views, writes, dol, gen>>

\* the cursor after read() got `data` back
CursorAfterRead(w, data) == w.cursor + Len(data)

read(v, size) ==
    /\ pc = "ready"
    /\ views[v].open
    /\ LET w == views[v]
           r == _readFile(iso, w.offset, w.size, w.cursor, size)
           call == [NoCall EXCEPT !.op = "read", !.v = v, !.count = size,
                                  !.cur0 = w.cursor]
       IN  /\ Followed(w.size, w.cursor, size)
           /\ IF r.err # "none"
              THEN \* the exception leaves read() before the cursor is touched
                   /\ last' = [call EXCEPT !.err = r.err]
                   /\ UNCHANGED views
              ELSE /\ InWindow(CursorAfterRead(w, r.out), w.size)
                   /\ last' = [call EXCEPT !.out = r.out]
                   /\ views' = [views EXCEPT ![v].cursor = CursorAfterRead(w, r.out)]
           /\ iso' = r.iso
    /\ UNCHANGED <<pc, attrs, files, stack, writes, dol, gen>>

\* f.write(data): the method is declared `def write(data)`, without self, so
\* the bound call hands it two arguments and Python raises TypeError before
\* the body runs
write(v, data) ==
    /\ pc = "ready"
    /\ views[v].open
    /\ last' = [NoCall EXCEPT !.op = "write", !.v = v, !.data = data,
                              !.cur0 = views[v].cursor, !.err = "TypeError"]
    /\ UNCHANGED <<iso, pc, attrs, files, stack, views, writes, dol, gen>>

-----------------------------------------------------------------------------
(* DolFile: the section table of a DOL executable *)

TextSlots == 6
DataSlots == 10
TextOffsetsAt == 0
DataOffsetsAt == 28
TextAddressesAt == 72
DataAddressesAt == 100
TextSizesAt == 144
DataSizesAt == 172
BssAddressAt == 216
BssSizeAt == 220
EntryPointAt == 224
bodyOffset == 256

NoDol ==
    [built |-> FALSE, data |-> [size |-> 0, data |-> <<>>], bssMemAddress |-> 0,
     bssSize |-> 0, entryPoint |-> 0, bodyOffset |-> 0, textSections |-> <<>>,
     dataSections |-> <<>>, sections |-> <<>>, sectionsDolOrder |-> <<>>,
     sectionsMemOrder |-> <<>>]

\* DolFile.Section(index, sectionType, dolOffset, memAddress, size)
Section(index, sectionType, dolOffset, memAddress, size) ==
    [none |-> FALSE, index |-> index, type |-> sectionType, dolOffset |-> dolOffset,
     endDolOffset |-> dolOffset + size, memAddress |-> memAddress,
     endMemAddress |-> memAddress + size, size |-> size]

\* isBefore that asks for the order of the two sections, not for adjacency
isBefore_InOrder(self, other) ==
    /\ self.memAddress <= other.memAddress
    /\ self.dolOffset <= other.dolOffset

\* isBefore that looks at the file offsets only
isBefore_FileOnly(self, other) ==
    self.dolOffset + self.size = other.dolOffset

\* Section.isBefore(other)
isBefore(self, other) ==
    /\ self.memAddress + self.size = other.memAddress
    /\ self.dolOffset + self.size = other.dolOffset

\* struct.unpack_from(">nI", data, at): n big-endian words, or fewer where the
\* data ends (the caller raises struct.error then)
UnpackFrom(data, at, n) ==
    IF at + 4 * n > data.size THEN <<>>
    ELSE [k \in 1..n |-> UnpackU32(FileRead(data, at + 4 * (k - 1), 4))]

\* the loop of _zipSections from slot i (0-based) on, broken off at the first
\* slot with a zero field
RECURSIVE ZipFrom(_, _, _, _, _)
ZipFrom(i, sectionType, offsets, memAddresses, sizes) ==
    IF i >= Len(offsets) THEN <<>>
    ELSE IF offsets[i + 1] = 0 \/ memAddresses[i + 1] = 0 \/ sizes[i + 1] = 0 THEN <<>>
    ELSE <<Section(i, sectionType, offsets[i + 1], memAddresses[i + 1], sizes[i + 1])>>
             \o ZipFrom(i + 1, sectionType, offsets, memAddresses, sizes)

\* _zipSections that passes over a slot with a zero field and goes on
_zipSections_SkipEmpty(sectionType, offsets, memAddresses, sizes) ==
    LET full == {i \in 1..Len(offsets) :
                    offsets[i] # 0 /\ memAddresses[i] # 0 /\ sizes[i] # 0}
        RECURSIVE from(_)
        from(i) == IF i > Len(offsets) THEN <<>>
                   ELSE IF i \in full
                        THEN <<Section(i - 1, sectionType, offsets[i], memAddresses[i],
                                       sizes[i])>> \o from(i + 1)
                        ELSE from(i + 1)
    IN  from(1)

_zipSections(sectionType, offsets, memAddresses, sizes) ==
    ZipFrom(0, sectionType, offsets, memAddresses, sizes)

\* x put into the sorted sequence after every element whose key is not greater
InsertOn(sorted, x, key) ==
    LET n == Cardinality({k \in 1..Len(sorted) : sorted[k][key] <= x[key]})
    IN  SubSeq(sorted, 1, n) \o <<x>> \o SubSeq(sorted, n + 1, Len(sorted))

\* list(sorted(seq, key=lambda x: x.key)): stable
RECURSIVE SortedOn(_, _)
SortedOn(seq, key) ==
    IF seq = <<>> THEN <<>>
    ELSE InsertOn(SortedOn(SubSeq(seq, 1, Len(seq) - 1), key), seq[Len(seq)], key)

\* a view handed to a constructor in place of a bytes object
View(v) == [view |-> v]
IsView(data) == "view" \in DOMAIN data

\* `data.seek(0); data = data.read()` on view w: [err, out, iso, cursor]; the
\* cursor is set to 0 and moved by what was read; an exception of the read
\* leaves it at 0
ReadWhole(c, w) ==
    LET r == _readFile(c, w.offset, w.size, 0, NoneCount)
    IN  [err |-> r.err, out |-> r.out, iso |-> r.iso,
         cursor |-> IF r.err # "none" THEN 0 ELSE Len(r.out)]

\* the rest of DolFile.__init__ on the bytes object data: [err, dol]
DolFileOf(data) ==
    LET textOffsets == UnpackFrom(data, TextOffsetsAt, TextSlots)
        dataOffsets == UnpackFrom(data, DataOffsetsAt, DataSlots)
        textAddresses == UnpackFrom(data, TextAddressesAt, TextSlots)
        dataAddresses == UnpackFrom(data, DataAddressesAt, DataSlots)
        textSizes == UnpackFrom(data, TextSizesAt, TextSlots)
        dataSizes == UnpackFrom(data, DataSizesAt, DataSlots)
        text == _zipSections("text", textOffsets, textAddresses, textSizes)
        dat == _zipSections("data", dataOffsets, dataAddresses, dataSizes)
    IN  IF data.size < EntryPointAt + 4
        THEN \* one of the unpack_from calls runs out of data
             [err |-> "struct.error", dol |-> NoDol]
        ELSE [err |-> "none",
              dol |-> [built |-> TRUE, data |-> data,
                       bssMemAddress |-> UnpackFrom(data, BssAddressAt, 1)[1],
                       bssSize |-> UnpackFrom(data, BssSizeAt, 1)[1],
                       entryPoint |-> UnpackFrom(data, EntryPointAt, 1)[1],
                       bodyOffset |-> bodyOffset,
                       textSections |-> text, dataSections |-> dat,
                       sections |-> text \o dat,
                       sectionsDolOrder |-> SortedOn(text \o dat, "dolOffset"),
                       sectionsMemOrder |-> SortedOn(text \o dat, "memAddress")]]

\* DolFile(data) for data a bytes object or a view; `dol` is the object the
\* last constructor call that did not raise has made
DolFile(data) ==
    /\ IsView(data) => pc = "ready" /\ views[data.view].open
    /\ LET whole == ReadWhole(iso, views[data.view])
           d == DolFileOf(IF IsView(data) THEN TableOf(whole.out) ELSE data)
           call == [NoCall EXCEPT !.op = "DolFile",
                                  !.v = IF IsView(data) THEN data.view ELSE 0]
       IN  /\ IF IsView(data)
              THEN /\ iso' = whole.iso
                   /\ views' = [views EXCEPT ![data.view].cursor = whole.cursor]
              ELSE UNCHANGED <<iso, views>>
           /\ IF IsView(data) /\ whole.err # "none"
              THEN last' = [call EXCEPT !.err = whole.err] /\ UNCHANGED dol
              ELSE IF d.err # "none"
              THEN last' = [call EXCEPT !.err = d.err] /\ UNCHANGED dol
              ELSE last' = call /\ dol' = d.dol
    /\ UNCHANGED <<pc, attrs, files, stack, writes, gen>>

\* Contains with the end address counted in
Contains_EndInclusive(section, start, x) ==
    x - section[start] >= 0 /\ x - section[start] <= section.size

\* rel = x - section.start; rel >= 0 and rel < section.size
Contains(section, start, x) ==
    x - section[start] >= 0 /\ x - section[start] < section.size

\* the loop of getSectionByMemAddress / getSectionByDolOffset from section k
\* on: [err, section].  None - int raises TypeError
RECURSIVE SectionFrom(_, _, _, _)
SectionFrom(sections, k, start, x) ==
    IF k > Len(sections) THEN [err |-> "none", section |-> NoSection]
    ELSE IF x.none THEN [err |-> "TypeError", section |-> NoSection]
    ELSE IF Contains(sections[k], start, x.n)
         THEN [err |-> "none", section |-> sections[k]]
         ELSE SectionFrom(sections, k + 1, start, x)

getSectionByMemAddress(d, memAddress) == SectionFrom(d.sections, 1, "memAddress", memAddress)

\* getSectionByDolOffset that searches the memory ranges
getSectionByDolOffset_InMemory(d, dolOffset) ==
    SectionFrom(d.sections, 1, "memAddress", dolOffset)

getSectionByDolOffset(d, dolOffset) == SectionFrom(d.sections, 1, "dolOffset", dolOffset)

\* memAddressToDolOffset that gives the file offset of the section's start
memAddressToDolOffset_SectionStart(d, memAddress) ==
    LET r == getSectionByMemAddress(d, memAddress)
    IN  IF r.err # "none" THEN [err |-> r.err, opt |-> None]
        ELSE IF r.section.none THEN [err |-> "none", opt |-> None]
        ELSE [err |-> "none", opt |-> Some(r.section.dolOffset)]

memAddressToDolOffset(d, memAddress) ==
    LET r == getSectionByMemAddress(d, memAddress)
    IN  IF r.err # "none" THEN [err |-> r.err, opt |-> None]
        ELSE IF r.section.none THEN [err |-> "none", opt |-> None]
        ELSE [err |-> "none",
              opt |-> Some(r.section.dolOffset + (memAddress.n - r.section.memAddress))]

\* dolOffsetToMemAddress(dolOffset): [err, opt]
dolOffsetToMemAddress(d, dolOffset) ==
    LET r == getSectionByDolOffset(d, dolOffset)
    IN  IF r.err # "none" THEN [err |-> r.err, opt |-> None]
        ELSE IF r.section.none THEN [err |-> "none", opt |-> None]
        ELSE [err |-> "none",
              opt |-> Some(r.section.memAddress + (dolOffset.n - r.section.dolOffset))]

\* position of section x in seq: list.index(x)
IndexIn(seq, x) == CHOOSE k \in 1..Len(seq) : seq[k] = x /\ \A j \in 1..(k - 1) : seq[j] # x

\* one activation of isMappedContiguous(dolOffsetStart, dolOffsetEnd), up to
\* its return, its exception or its recursive call: [err, val, again, next],
\* `next` the start the recursive call is made with
Activation(d, dolOffsetStart, dolOffsetEnd) ==
    LET r == getSectionByDolOffset(d, dolOffsetStart)
        section == r.section
        dolIndex == IndexIn(d.sectionsDolOrder, section)
        memIndex == IndexIn(d.sectionsMemOrder, section)
        dolNext == d.sectionsDolOrder[dolIndex + 1]
        memNext == d.sectionsDolOrder[memIndex + 1]
        return(v) == [err |-> "none", val |-> v, again |-> FALSE, next |-> None]
        raise(e) == [err |-> e, val |-> FALSE, again |-> FALSE, next |-> None]
    IN  IF r.err # "none" THEN raise(r.err)
        ELSE IF section.none THEN raise("AttributeError")   \* None.endDolOffset
        ELSE IF dolOffsetEnd.none THEN raise("TypeError")   \* None <= int
        ELSE IF dolOffsetEnd.n <= section.endDolOffset THEN return(TRUE)
        ELSE IF dolIndex + 1 > Len(d.sectionsDolOrder)
        THEN raise("IndexError")                            \* sectionsDolOrder[dolIndex+1]
        ELSE IF memIndex + 1 > Len(d.sectionsDolOrder)
        THEN raise("IndexError")                            \* sectionsDolOrder[memIndex+1]
        ELSE IF dolNext = memNext /\ isBefore(section, dolNext)
        THEN [err |-> "none", val |-> FALSE, again |-> TRUE,
              next |-> Some(dolNext.dolOffset)]
        ELSE return(FALSE)

\* isMappedContiguous(dolOffsetStart, dolOffsetEnd): [err, val]
RECURSIVE isMappedContiguous(_, _, _)
isMappedContiguous(d, dolOffsetStart, dolOffsetEnd) ==
    LET a == Activation(d, dolOffsetStart, dolOffsetEnd)
    IN  IF a.again THEN isMappedContiguous(d, a.next, dolOffsetEnd)
        ELSE [err |-> a.err, val |-> a.val]

\* isMappedContiguousMem(memAddressStart, memAddressEnd): [err, val]
isMappedContiguousMem(d, memAddressStart, memAddressEnd) ==
    LET a == memAddressToDolOffset(d, memAddressStart)
        b == memAddressToDolOffset(d, memAddressEnd)
    IN  IF a.err # "none" THEN [err |-> a.err, val |-> FALSE]
        ELSE IF b.err # "none" THEN [err |-> b.err, val |-> FALSE]
        ELSE isMappedContiguous(d, a.opt, b.opt)

\* the calls on a constructed DolFile
GetSectionByMemAddress(memAddress) ==
    /\ dol.built
    /\ last' = [NoCall EXCEPT !.op = "getSectionByMemAddress", !.offset = memAddress,
                   !.err = getSectionByMemAddress(dol, Some(memAddress)).err,
                   !.section = getSectionByMemAddress(dol, Some(memAddress)).section]
    /\ UNCHANGED <<iso, pc, attrs, files, stack, views, writes, dol, gen>>

GetSectionByDolOffset(dolOffset) ==
    /\ dol.built
    /\ last' = [NoCall EXCEPT !.op = "getSectionByDolOffset", !.offset = dolOffset,
                   !.err = getSectionByDolOffset(dol, Some(dolOffset)).err,
                   !.section = getSectionByDolOffset(dol, Some(dolOffset)).section]
    /\ UNCHANGED <<iso, pc, attrs, files, stack, views, writes, dol, gen>>

MemAddressToDolOffset(memAddress) ==
    /\ dol.built
    /\ last' = [NoCall EXCEPT !.op = "memAddressToDolOffset", !.offset = memAddress,
                   !.err = memAddressToDolOffset(dol, Some(memAddress)).err,
                   !.opt = memAddressToDolOffset(dol, Some(memAddress)).opt]
    /\ UNCHANGED <<iso, pc, attrs, files, stack, views, writes, dol, gen>>

DolOffsetToMemAddress(dolOffset) ==
    /\ dol.built
    /\ last' = [NoCall EXCEPT !.op = "dolOffsetToMemAddress", !.offset = dolOffset,
                   !.err = dolOffsetToMemAddress(dol, Some(dolOffset)).err,
                   !.opt = dolOffsetToMemAddress(dol, Some(dolOffset)).opt]
    /\ UNCHANGED <<iso, pc, attrs, files, stack, views, writes, dol, gen>>

IsMappedContiguous(dolOffsetStart, dolOffsetEnd) ==
    /\ dol.built
    /\ last' = [NoCall EXCEPT !.op = "isMappedContiguous", !.offset = dolOffsetStart,
                   !.end = dolOffsetEnd,
                   !.err = isMappedContiguous(dol, Some(dolOffsetStart), Some(dolOffsetEnd)).err,
                   !.bool = isMappedContiguous(dol, Some(dolOffsetStart), Some(dolOffsetEnd)).val]
    /\ UNCHANGED <<iso, pc, attrs, files, stack, views, writes, dol, gen>>

IsMappedContiguousMem(memAddressStart, memAddressEnd) ==
    /\ dol.built
    /\ last' = [NoCall EXCEPT !.op = "isMappedContiguousMem", !.offset = memAddressStart,
                   !.end = memAddressEnd,
                   !.err = isMappedContiguousMem(dol, Some(memAddressStart), Some(memAddressEnd)).err,
                   !.bool = isMappedContiguousMem(dol, Some(memAddressStart), Some(memAddressEnd)).val]
    /\ UNCHANGED <<iso, pc, attrs, files, stack, views, writes, dol, gen>>

\* isMappedContiguous followed activation by activation: the call is entered
\* with its first start, every recursive call adds its start to `starts`,
\* the return or the exception of the innermost activation ends the call
\* (every outer activation returns what the inner one returned)
EnterIsMappedContiguous(dolOffsetStart, dolOffsetEnd) ==
    /\ dol.built
    /\ ~last.active
    /\ last' = [NoCall EXCEPT !.op = "isMappedContiguous", !.offset = dolOffsetStart,
                              !.end = dolOffsetEnd, !.starts = <<dolOffsetStart>>,
                              !.active = TRUE]
    /\ UNCHANGED <<iso, pc, attrs, files, stack, views, writes, dol, gen>>

RecurseIsMappedContiguous ==
    /\ last.active
    /\ Len(last.starts) < MaxDepth
    /\ LET a == Activation(dol, Some(last.starts[Len(last.starts)]), Some(last.end))
       IN  /\ a.again
           /\ last' = [last EXCEPT !.starts = Append(@, a.next.n)]
    /\ UNCHANGED <<iso, pc, attrs, files, stack, views, writes, dol, gen>>

ReturnIsMappedContiguous ==
    /\ last.active
    /\ LET a == Activation(dol, Some(last.starts[Len(last.starts)]), Some(last.end))
       IN  /\ ~a.again
           /\ last' = [last EXCEPT !.active = FALSE, !.err = a.err, !.bool = a.val]
    /\ UNCHANGED <<iso, pc, attrs, files, stack, views, writes, dol, gen>>

-----------------------------------------------------------------------------
(* BannerFile, and the IsoFile calls that read a whole file from the handle *)

_META_DATA_SIZE == 320
metaDataOffset == 6176
PixelDataAt == 32

\* _zeroTermination(b, offset, maxLen) from index i on: b[i] is read before
\* the length is tested, so an index at the end of b raises IndexError
RECURSIVE ZeroTerminationFrom(_, _, _, _)
ZeroTerminationFrom(b, offset, maxLen, i) ==
    IF i >= b.size THEN [err |-> "IndexError", s |-> <<>>]
    ELSE IF ByteAt(b, i) # 0 /\ i - offset < maxLen
         THEN ZeroTerminationFrom(b, offset, maxLen, i + 1)
         ELSE [err |-> "none", s |-> FileRead(b, offset, i - offset)]

_zeroTermination(b, offset, maxLen) == ZeroTerminationFrom(b, offset, maxLen, offset)

\* BannerFile.MetaData(data, offset): [err, gameName, ..., gameDescription]
MetaData(data, offset) ==
    LET gameName == _zeroTermination(data, offset, 32)
        developerName == _zeroTermination(data, offset + 32, 32)
        fullGameTitle == _zeroTermination(data, offset + 64, 64)
        fullDeveloperName == _zeroTermination(data, offset + 128, 64)
        gameDescription == _zeroTermination(data, offset + 192, 128)
        all == <<gameName, developerName, fullGameTitle, fullDeveloperName,
                 gameDescription>>
    IN  [err |-> IF \E k \in 1..5 : all[k].err # "none" THEN "IndexError" ELSE "none",
         gameName |-> gameName.s, developerName |-> developerName.s,
         fullGameTitle |-> fullGameTitle.s, fullDeveloperName |-> fullDeveloperName.s,
         gameDescription |-> gameDescription.s]

NoBanner == NoCall.banner

\* the rest of BannerFile.__init__ on the bytes object data: [err, banner];
\* meta is one MetaData when there is room for exactly one, a list otherwise
BannerFileOf(data) ==
    LET metaDataCount == (data.size - metaDataOffset) \div _META_DATA_SIZE
        meta == [i \in 1..metaDataCount |->
                    MetaData(data, metaDataOffset + _META_DATA_SIZE * (i - 1))]
    IN  IF \E i \in 1..metaDataCount : meta[i].err # "none"
        THEN [err |-> "IndexError", banner |-> NoBanner]
        ELSE [err |-> "none",
              banner |-> [built |-> TRUE, data |-> data,
                          magicBytes |-> FileRead(data, 0, 4),
                          pixelData |-> Slice(data, Min(PixelDataAt, data.size),
                                              Max(Min(PixelDataAt, data.size),
                                                  Min(metaDataOffset, data.size))),
                          single |-> metaDataCount = 1, meta |-> meta]]

\* BannerFile(data) for data a bytes object or a view; the object is handed
\* back to the caller
BannerFile(data) ==
    /\ IsView(data) => pc = "ready" /\ views[data.view].open
    /\ LET whole == ReadWhole(iso, views[data.view])
           b == BannerFileOf(IF IsView(data) THEN TableOf(whole.out) ELSE data)
           call == [NoCall EXCEPT !.op = "BannerFile",
                                  !.v = IF IsView(data) THEN data.view ELSE 0]
       IN  /\ IF IsView(data)
              THEN /\ iso' = whole.iso
                   /\ views' = [views EXCEPT ![data.view].cursor = whole.cursor]
              ELSE UNCHANGED <<iso, views>>
           /\ IF IsView(data) /\ whole.err # "none"
              THEN last' = [call EXCEPT !.err = whole.err]
              ELSE last' = [call EXCEPT !.err = b.err, !.banner = b.banner]
    /\ UNCHANGED <<pc, attrs, files, stack, writes, dol, gen>>

\* `self.file.seek(fileOffset); self.file.read(fileSize)` of getBannerFile and
\* getDolFile: [err, out, iso]
ReadExtent(c, fileOffset, fileSize) ==
    LET sought == Seek(c, fileOffset)
        r == HandleRead(sought, Position(sought, fileOffset), fileSize)
    IN  IF Closed(c) THEN [err |-> "ValueError", out |-> <<>>, iso |-> c]
        ELSE [err |-> r.err, out |-> r.out, iso |-> Seek(sought, r.pos)]

getBannerFile(path) ==
    /\ pc = "ready"
    /\ LET f == Lookup(path)
           r == ReadExtent(iso, f.offset, f.size)
           b == BannerFileOf(TableOf(r.out))
           call == [NoCall EXCEPT !.op = "getBannerFile", !.path = path]
       IN  IF f.err # "none"
           THEN last' = [call EXCEPT !.err = f.err] /\ iso' = iso
           ELSE /\ iso' = r.iso
                /\ IF r.err # "none"
                   THEN last' = [call EXCEPT !.err = r.err]
                   ELSE last' = [call EXCEPT !.err = b.err, !.banner = b.banner]
    /\ UNCHANGED <<pc, attrs, files, stack, views, writes, dol, gen>>

getDolFile(path) ==
    /\ pc = "ready"
    /\ LET f == Lookup(path)
           r == ReadExtent(iso, f.offset, f.size)
           d == DolFileOf(TableOf(r.out))
           call == [NoCall EXCEPT !.op = "getDolFile", !.path = path]
       IN  IF f.err # "none"
           THEN last' = [call EXCEPT !.err = f.err] /\ UNCHANGED <<iso, dol>>
           ELSE /\ iso' = r.iso
                /\ IF r.err # "none"
                   THEN last' = [call EXCEPT !.err = r.err] /\ UNCHANGED dol
                   ELSE IF d.err # "none"
                   THEN last' = [call EXCEPT !.err = d.err] /\ UNCHANGED dol
                   ELSE last' = call /\ dol' = d.dol
    /\ UNCHANGED <<pc, attrs, files, stack, views, writes, gen>>

\* IsoFile.close(), and __exit__ at the end of a with block
close ==
    /\ pc = "ready"
    /\ iso' = Close(iso)
    /\ last' = [NoCall EXCEPT !.op = "close"]
    /\ UNCHANGED <<pc, attrs, files, stack, views, writes, dol, gen>>

-----------------------------------------------------------------------------
(* DOL headers the model is run on: the slots of each kind are given as     *)
(* (dolOffset, memAddress, size), the slots not given are zero               *)

Slot(o, m, s) == [dolOffset |-> o, memAddress |-> m, size |-> s]

\* text slots at the text tables, data slots at the data tables
DolData(text, data, size) ==
    LET word(at, k, v) == [pos |-> at + 4 * (k - 1), bytes |-> PackU32(v)]
        parts ==
            [k \in 1..Len(text) |-> word(TextOffsetsAt, k, text[k].dolOffset)]
            \o [k \in 1..Len(text) |-> word(TextAddressesAt, k, text[k].memAddress)]
            \o [k \in 1..Len(text) |-> word(TextSizesAt, k, text[k].size)]
            \o [k \in 1..Len(data) |-> word(DataOffsetsAt, k, data[k].dolOffset)]
            \o [k \in 1..Len(data) |-> word(DataAddressesAt, k, data[k].memAddress)]
            \o [k \in 1..Len(data) |-> word(DataSizesAt, k, data[k].size)]
            \o <<word(BssAddressAt, 1, 14), word(BssSizeAt, 1, 3), word(EntryPointAt, 1, 8)>>
        fixed == CellsOfAll(parts)
    IN  [size |-> size,
         data |-> [p \in {q \in DOMAIN fixed : q < size /\ fixed[q] # 0} |-> fixed[p]]]

\* the slots the enumerated headers are made of: sections that follow each
\* other in both spaces (2,4,2)(4,6,2)(6,8,3), in the file only (4,8,2), one
\* late in the file and early in memory (8,1,2), one that overlaps others
\* (3,3,2), one that lies inside another (7,9,1), and slots with a zero field
SlotPool ==
    {Slot(2, 4, 2), Slot(4, 6, 2), Slot(4, 8, 2), Slot(8, 1, 2), Slot(3, 3, 2),
     Slot(7, 9, 1), Slot(0, 4, 2), Slot(2, 4, 0)}

DataSlotPool == {Slot(6, 8, 3), Slot(8, 1, 2), Slot(6, 0, 3)}

\* a header with every slot of both kinds filled
FullText == [k \in 1..TextSlots |-> Slot(2 * k, 40 + 2 * k, 2)]
FullData == [k \in 1..DataSlots |-> Slot(20 + 2 * k, 2 * k, 2)]

\* (4,6,2) is followed by (6,8,3) in both spaces, and offset 6 is found in
\* (3,1,4), which lies over both in the file and comes first in `sections`
Overlaid == DolData(<<Slot(4, 6, 2), Slot(3, 1, 4)>>, <<Slot(6, 8, 3)>>, bodyOffset)

DolDatas ==
    {DolData(<<t0, t1>>, <<d0>>, bodyOffset) :
        t0 \in SlotPool, t1 \in SlotPool, d0 \in DataSlotPool}
    \cup {DolData(FullText, FullData, bodyOffset),
          DolData(FullText, FullData, EntryPointAt + 3),
          Overlaid}

AddrArgs == 0..MaxAddr

-----------------------------------------------------------------------------
(* The arguments the calls are made with *)

\* b"nofile", in no registry
NoFile == <<110, 111, 102, 105, 108, 101>>

PathArgs ==
    {Bytes(files[k].path) : k \in 1..Len(files)}
    \cup {Bytes(NoFile)}
    \cup {Str(files[k].path) : k \in {j \in 1..Len(files) : j = Len(files)}}

CountArgs == {NoneCount} \cup {Count(n) : n \in (0 - 1)..MaxCount}

OffsetArgs == (0 - 1)..MaxOffset

DataArgs == {Bytes(<<>>), Bytes(<<170>>), Bytes(<<0, 187>>), Str(<<170>>)}

SeekArgs == (0 - MaxSlack)..MaxSlack

WhenceArgs == 0..3

\* the directory paths asked about: the heads of the registered paths up to
\* MaxPrefix bytes, b"/", b"" and a str
DirArgs ==
    {Bytes(SubSeq(files[k].path, 1, Min(n, Len(files[k].path)))) :
        k \in 1..Len(files), n \in 1..MaxPrefix}
    \cup {Bytes(<<Slash>>), Bytes(<<>>), Str(<<97>>)}

-----------------------------------------------------------------------------
(* Specifications *)

\* the views a run follows
OneView == {1}

InitOn(images, ids) ==
    /\ iso \in images
    /\ pc = "header"
    /\ attrs = NoAttrs
    /\ files = <<>>
    /\ stack = <<>>
    /\ views = [v \in ids |-> NoView]
    /\ writes = 0
    /\ dol = NoDol
    /\ gen = NoGen
    /\ last = NoCall

Load == _readDiskHeader \/ _readFst \/ ReadDirectoryCall \/ ReadDirectoryReturn

\* construction alone, on every enumerated image
InitLoad == InitOn(LoadImages, OneView)
NextLoad == Load
SpecLoad == InitLoad /\ [][NextLoad]_vars

ViewCalls ==
    \/ \E v \in DOMAIN views, path \in PathArgs : open(v, path)
    \/ \E v \in DOMAIN views, offset \in SeekArgs, whence \in WhenceArgs :
          seek(v, offset, whence)
    \/ \E v \in DOMAIN views : tell(v)
    \/ \E v \in DOMAIN views, size \in CountArgs : read(v, size)
    \/ \E v \in DOMAIN views, data \in DataArgs : write(v, data)

ReadCalls ==
    \E path \in PathArgs, offset \in OffsetArgs, count \in CountArgs :
        readFile(path, offset, count)

WriteCalls ==
    \E path \in PathArgs, offset \in OffsetArgs, data \in DataArgs :
        writeFile(path, offset, data)

\* construction alone, never left waiting: a step that can be taken is taken
InitTraverse == InitOn(LoadImages, OneView)
NextTraverse == Load
SpecTraverse == InitTraverse /\ [][NextTraverse]_vars /\ WF_vars(NextTraverse)

\* construction alone, on the images that differ in their headers
InitHeader == InitOn(HeaderImages, OneView)
NextHeader == Load
SpecHeader == InitHeader /\ [][NextHeader]_vars

\* construction, then calls on one view of the loaded IsoFile
Init == InitOn(FileImages, OneView)
Next == Load \/ ViewCalls
Spec == Init /\ [][Next]_vars

\* construction, then readFile / writeFile on the loaded IsoFile
InitFile == InitOn(FileImages, OneView)
NextFile == Load \/ ReadCalls \/ WriteCalls
SpecFile == InitFile /\ [][NextFile]_vars

\* construction, then readFile on the loaded IsoFile
InitRead == InitOn(FileImages, OneView)
NextRead == Load \/ ReadCalls
SpecRead == InitRead /\ [][NextRead]_vars

\* construction, then writeFile on the loaded IsoFile
InitWrite == InitOn(FileImages, OneView)
NextWrite == Load \/ WriteCalls
SpecWrite == InitWrite /\ [][NextWrite]_vars

DirCalls ==
    \/ \E path \in DirArgs : listDir(path)
    \/ next
    \/ \E path \in DirArgs : isDir(path)

\* what the caller does while a generator is suspended: a read and a write
\* of the last file of the registry
LastPath == {Bytes(files[k].path) : k \in {j \in 1..Len(files) : j = Len(files)}}

BetweenCalls ==
    \/ \E path \in LastPath : readFile(path, 0, Count(1))
    \/ \E path \in LastPath : writeFile(path, 0, Bytes(<<170>>))

\* construction, then listDir / next / isDir on the loaded IsoFile, with
\* reads and writes in between
InitDir == InitOn({Opened(c) : c \in DirImages}, OneView)
NextDir == Load \/ DirCalls \/ BetweenCalls
SpecDir == InitDir /\ [][NextDir]_vars

\* one DolFile is made in a run of the section queries
NewDolFile == ~dol.built /\ \E data \in DolDatas : DolFile(data)

SectionCalls ==
    \/ \E a \in AddrArgs : GetSectionByMemAddress(a)
    \/ \E a \in AddrArgs : GetSectionByDolOffset(a)
    \/ \E a \in AddrArgs : MemAddressToDolOffset(a)
    \/ \E a \in AddrArgs : DolOffsetToMemAddress(a)

ContiguityCalls ==
    \/ \E a \in AddrArgs, b \in AddrArgs : b >= a - 1 /\ IsMappedContiguous(a, b)
    \/ \E a \in AddrArgs, b \in AddrArgs : b >= a - 1 /\ IsMappedContiguousMem(a, b)

\* a DolFile is made of a header, then asked for sections and translations
InitDol == InitOn({Disk(TreeShape, LetterNames(5), 1, 6, 4, 2, 0)}, OneView)
NextDol == NewDolFile \/ SectionCalls
SpecDol == InitDol /\ [][NextDol]_vars

\* a DolFile is made of a header, then asked the contiguity questions
InitContig == InitOn({Disk(TreeShape, LetterNames(5), 1, 6, 4, 2, 0)}, OneView)
NextContig == NewDolFile \/ ContiguityCalls
SpecContig == InitContig /\ [][NextContig]_vars

ActivationSteps == RecurseIsMappedContiguous \/ ReturnIsMappedContiguous

\* a DolFile is made of a header, then isMappedContiguous is called and
\* followed through its activations
InitDepth == InitOn({Disk(TreeShape, LetterNames(5), 1, 6, 4, 2, 0)}, OneView)
NextDepth ==
    \/ NewDolFile
    \/ \E a \in AddrArgs, b \in AddrArgs : b >= a - 1 /\ EnterIsMappedContiguous(a, b)
    \/ ActivationSteps
\* a running call is not left waiting: its next activation step is taken
SpecDepth == InitDepth /\ [][NextDepth]_vars /\ WF_vars(ActivationSteps)

\* two views of one IsoFile whose handle position is followed
TwoViews == {1, 2}

\* what the two views are opened on and asked for: the first and the last
\* non-empty file of the table, short seeks from the start, from the cursor and from the end, short reads
TablePaths ==
    {Bytes(files[k].path) : k \in {j \in 1..Len(files) : j \in {Len(files) - 2, Len(files)}}}
\* the file read whole by getDolFile and getBannerFile: the last of the table
WholePaths == {p \in TablePaths : p.s = files[Len(files)].path}
NearSeeks == 0..1
Whences == 0..2
ShortCounts == {NoneCount, Count(1)}

SharedCalls ==
    \/ \E v \in DOMAIN views, path \in TablePaths : open(v, path)
    \/ \E v \in DOMAIN views, offset \in NearSeeks, whence \in Whences :
          seek(v, offset, whence)
    \/ \E v \in DOMAIN views : tell(v)
    \/ \E v \in DOMAIN views, size \in ShortCounts : read(v, size)
    \/ \E path \in TablePaths, offset \in NearSeeks, count \in ShortCounts :
          readFile(path, offset, count)
    \/ \E path \in WholePaths : getDolFile(path)
    \/ \E path \in WholePaths : getBannerFile(path)
    \/ \E v \in DOMAIN views : DolFile(View(v))
    \/ \E v \in DOMAIN views : BannerFile(View(v))
    \/ close

\* construction, then seek / tell / read on two views, readFile, the calls
\* that read a whole file and close, in any order, all through the one
\* handle of the IsoFile
InitShared == InitOn({Opened(Disk(TreeShape, LetterNames(5), 1, 6, 4, 2, 0))}, TwoViews)
NextShared == Load \/ SharedCalls
SpecShared == InitShared /\ [][NextShared]_vars

-----------------------------------------------------------------------------
(* Notions the claims are stated with *)

\* `out` is exactly the n bytes the container holds at [lo, lo+n)
ExactBytes(c, lo, n, out) ==
    /\ Len(out) = n
    /\ \A i \in 1..n : lo + i - 1 < c.size /\ out[i] = ByteAt(c, lo + i - 1)

\* what the container holds at position p: a byte, or nothing (-1)
Content(c, p) == IF p >= 0 /\ p < c.size THEN ByteAt(c, p) ELSE 0 - 1

\* the positions at which containers c1 and c2 differ: a position outside both
\* data maps and below both sizes holds 0 in both
Changed(c1, c2) ==
    {p \in DOMAIN c1.data \cup DOMAIN c2.data
            \cup (Min(c1.size, c2.size)..(Max(c1.size, c2.size) - 1)) :
        Content(c1, p) # Content(c2, p)}

Registered(path) == path.bytes /\ FilesHas(files, path.s)

\* the view the last call was made on
LastView == views[last.v]

\* entry k of the file system table as the container holds it
Entry(k) == FstEntry(iso, attrs.fstOffset, attrs.stringTableOffset, k)

\* the directories of the table that entry k lies in, the root left out
Enclosing(k) == {d \in 1..(k - 1) : Entry(d).isDir /\ k < Entry(d).length}

\* entry 0 is a directory whose size field is numEntries, and every directory
\* d has a bound L with d < L <= the bound of each directory around it
WellFormedFst ==
    LET n == attrs.numFstEntries
    IN  /\ n >= 1
        /\ \A k \in 0..(n - 1) : Entry(k).err = "none"
        /\ Entry(0).isDir /\ Entry(0).length = n
        /\ \A d \in 1..(n - 1) :
              Entry(d).isDir =>
                  /\ d < Entry(d).length
                  /\ Entry(d).length <= n
                  /\ \A q \in Enclosing(d) : Entry(d).length <= Entry(q).length

\* names of the enclosing directories from index `from` on, each followed by
\* '/', then the entry's own name
RECURSIVE PathFrom(_, _)
PathFrom(k, from) ==
    IF from >= k THEN Entry(k).name
    ELSE IF from \in Enclosing(k)
         THEN Entry(from).name \o <<Slash>> \o PathFrom(k, from + 1)
         ELSE PathFrom(k, from + 1)

\* the non-directory entries with index in lo..n-1, in ascending index order
RECURSIVE TableFiles(_, _)
TableFiles(lo, n) ==
    IF lo >= n THEN <<>>
    ELSE IF Entry(lo).isDir THEN TableFiles(lo + 1, n)
    ELSE <<[path |-> PathFrom(lo, 1), offset |-> Entry(lo).offset,
            size |-> Entry(lo).length]>> \o TableFiles(lo + 1, n)

\* the entries _readDiskHeader puts into the registry before the FST is read
SystemFiles == 5

-----------------------------------------------------------------------------
(* C1..C10 *)

\* C1: read on a view of extent E with cursor c, 0 <= c < E: for a count
\* n >= 0 with c+n <= E it returns exactly the n container bytes at
\* [base+c, base+c+n) and the cursor becomes c+n; for a negative or None count
\* it returns exactly the E-c bytes up to base+E and the cursor becomes E.
C1_ReadReturnsRequested ==
    (last.op = "read" /\ 0 <= last.cur0 /\ last.cur0 < LastView.size) =>
        LET w == LastView
            c == last.cur0
            n == last.count.n
        IN  /\ (~last.count.none /\ n >= 0 /\ c + n <= w.size) =>
                  /\ last.err = "none"
                  /\ ExactBytes(iso, w.offset + c, n, last.out)
                  /\ w.cursor = c + n
            /\ (last.count.none \/ n < 0) =>
                  /\ last.err = "none"
                  /\ ExactBytes(iso, w.offset + c, w.size - c, last.out)
                  /\ w.cursor = w.size

\* C2: a read fails exactly when cursor < 0, cursor >= extent or
\* cursor+count > extent, and a failed read leaves the cursor where it was; a
\* read at a cursor that a seek put past the end fails with IndexError and
\* the cursor still is that position.
C2_FailedReadKeepsCursor ==
    last.op = "read" =>
        LET w == LastView
            c == last.cur0
            fails == \/ c < 0
                     \/ c >= w.size
                     \/ ~last.count.none /\ last.count.n >= 0
                            /\ c + last.count.n > w.size
        IN  /\ (last.err # "none") <=> fails
            /\ last.err # "none" => w.cursor = c
            /\ c >= w.size => last.err = "IndexError" /\ w.cursor = c

C2_Witness ==
    /\ last.op = "read" /\ last.err = "IndexError"
    /\ LastView.size > 0 /\ last.cur0 > LastView.size
    /\ LastView.cursor = last.cur0

\* C3: readFile(path, offset, count) on a registered file of size S raises
\* IndexError exactly when offset < 0 or offset >= S, whatever count is;
\* otherwise ValueError exactly when count >= 0 and offset+count > S;
\* otherwise it succeeds.  A path that is not bytes raises TypeError, whatever
\* the offset and count.
C3_ReadFileErrors ==
    last.op = "readFile" =>
        /\ ~last.path.bytes => last.err = "TypeError"
        /\ Registered(last.path) =>
              LET S == FilesGet(files, last.path.s).size
                  o == last.offset
                  outOfRange == o < 0 \/ o >= S
                  exceeded == ~last.count.none /\ last.count.n >= 0
                                  /\ o + last.count.n > S
              IN  /\ (last.err = "IndexError") <=> outOfRange
                  /\ (last.err = "ValueError") <=> (~outOfRange /\ exceeded)
                  /\ (last.err = "none") <=> (~outOfRange /\ ~exceeded)

C3_Witness ==
    /\ last.op = "readFile" /\ Registered(last.path)
    /\ last.err = "IndexError"
    /\ last.offset = FilesGet(files, last.path.s).size
    /\ last.count = Count(0)
    /\ FilesGet(files, last.path.s).size > 0

\* C4: write(data) on a view with cursor c, 0 <= c < extent and
\* c+len(data) <= extent stores data in the container at [base+c, ...),
\* returns len(data) and advances the cursor by len(data); a rejected write
\* leaves the cursor unchanged.
C4_WriteStores ==
    last.op = "write" =>
        LET w == LastView
            c == last.cur0
            d == last.data.s
        IN  /\ (last.data.bytes /\ 0 <= c /\ c < w.size /\ c + Len(d) <= w.size) =>
                  /\ last.err = "none"
                  /\ last.ret = Len(d)
                  /\ w.cursor = c + Len(d)
                  /\ ExactBytes(iso, w.offset + c, Len(d), d)
            /\ last.err # "none" => w.cursor = c

\* what readFile(path, offset, count) gives when called in the current state
ReadBack(path, offset, count) ==
    LET f == Lookup(path)
    IN  IF f.err # "none" THEN [err |-> f.err, out |-> <<>>]
        ELSE _readFile(iso, f.offset, f.size, offset, count)

\* C5 as stated: for every registered path of size S, every offset o and
\* every byte string b with o+len(b) <= S, writeFile(path, o, b) followed by
\* readFile(path, o, len(b)) returns b.
C5_RoundTripAnyOffset ==
    (last.op = "writeFile" /\ Registered(last.path) /\ last.data.bytes
        /\ last.offset + Len(last.data.s) <= FilesGet(files, last.path.s).size) =>
        /\ last.err = "none"
        /\ ReadBack(last.path, last.offset, Count(Len(last.data.s))).err = "none"
        /\ ReadBack(last.path, last.offset, Count(Len(last.data.s))).out = last.data.s

\* C5 amended: the same for every offset o with 0 <= o < S.
C5_RoundTrip ==
    (last.op = "writeFile" /\ Registered(last.path) /\ last.data.bytes
        /\ 0 <= last.offset /\ last.offset < FilesGet(files, last.path.s).size
        /\ last.offset + Len(last.data.s) <= FilesGet(files, last.path.s).size) =>
        /\ last.err = "none"
        /\ ReadBack(last.path, last.offset, Count(Len(last.data.s))).err = "none"
        /\ ReadBack(last.path, last.offset, Count(Len(last.data.s))).out = last.data.s

C5_Witness ==
    /\ last.op = "writeFile" /\ last.err = "none"
    /\ last.offset > 0 /\ Len(last.data.s) = 2
    /\ ReadBack(last.path, last.offset, Count(2)).out = last.data.s

\* C6: a successful writeFile(path, o, data) changes only the container bytes
\* in [fileOffset+o, fileOffset+o+len(data)), which lie inside the file's
\* extent, and no registry entry; a rejected writeFile changes no container
\* byte and no registry entry.
C6_WriteFrame ==
    [][(pc = "ready" /\ last'.op = "writeFile") =>
          /\ files' = files
          /\ last'.err # "none" => iso' = iso
          /\ last'.err = "none" =>
                LET f == FilesGet(files, last'.path.s)
                    lo == f.offset + last'.offset
                    hi == lo + Len(last'.data.s)
                IN  /\ f.offset <= lo /\ hi <= f.offset + f.size
                    /\ Changed(iso, iso') \subseteq lo..(hi - 1)
      ]_vars

\* C7: seek(offset, whence) sets the cursor to offset, cursor+offset or
\* size+offset for whence 0, 1, 2 and returns it, before the start and past
\* the end too; another whence raises ValueError and leaves the cursor;
\* tell() returns the cursor.
C7_SeekTell ==
    /\ last.op = "seek" =>
          LET target == CASE last.whence = 0 -> last.offset
                          [] last.whence = 1 -> last.cur0 + last.offset
                          [] last.whence = 2 -> LastView.size + last.offset
                          [] OTHER -> last.cur0
          IN  /\ LastView.cursor = target
              /\ (last.whence \in {0, 1, 2}) =>
                    last.err = "none" /\ last.ret = target
              /\ (last.whence \notin {0, 1, 2}) => last.err = "ValueError"
    /\ last.op = "tell" => last.err = "none" /\ last.ret = LastView.cursor

C7_Witness ==
    /\ last.op = "seek" /\ last.whence = 2 /\ last.err = "none"
    /\ last.cur0 < 0
    /\ LastView.size > 0 /\ last.ret > LastView.size
    /\ LastView.cursor = last.ret

\* C8: for every path of the registry, of any size including 0, open(path)
\* followed by read() with no count succeeds and returns exactly the
\* container bytes at [offset, offset+size) (those of them the container has).
C8_OpenReadAll ==
    [][(last.op = "open" /\ last.err = "none" /\ last'.op = "read"
            /\ last'.count.none) =>
          /\ last'.err = "none"
          /\ LET f == FilesGet(files, last.path.s)
             IN  ExactBytes(iso, f.offset, Min(f.size, iso.size - f.offset), last'.out)
      ]_vars

\* C9: after construction every registry entry (offset, size) has 0 <= size
\* and offset+size <= container size.
C9_EntriesInsideContainer ==
    pc = "ready" =>
        \A k \in 1..Len(files) :
            /\ 0 <= files[k].size
            /\ files[k].offset + files[k].size <= iso.size

\* C10: for a well-formed FST the traversal records every non-directory entry
\* with index in 1..numEntries-1 exactly once, in ascending index order, under
\* the names of its enclosing directories and its own name joined by '/',
\* with that entry's (offset, size).
C10_TraversalRecordsEveryFile ==
    (pc = "ready" /\ WellFormedFst) =>
        SubSeq(files, SystemFiles + 1, Len(files)) = TableFiles(1, attrs.numFstEntries)

-----------------------------------------------------------------------------
(* C11..C20 *)

\* C11: whenever a turn of the traversal decodes a table index at or beyond
\* numEntries, building the table fails there (with whatever exception) and
\* the registry stays as it was.
C11_IndexBeyondTableFails ==
    [][(pc = "dir" /\ stack # <<>>
            /\ stack[Len(stack)].i < stack[Len(stack)].length
            /\ stack[Len(stack)].i >= attrs.numFstEntries) =>
          (pc' = "failed" /\ files' = files)
      ]_vars

\* registry entry k is `path` and covers the container bytes [lo, hi)
Covers(k, path, lo, hi) ==
    /\ files[k].path = path
    /\ files[k].offset = lo
    /\ files[k].offset + files[k].size = hi

\* C12 as stated: once the header is parsed the registry starts with
\* boot.bin [0,0x440), bi2.bin [0x440,0x2000), fst.bin [fstOffset,
\* fstOffset+fstSize), start.dol [dolOffset, fstOffset) and appldr.bin
\* [0x2460, 0x2460+apploaderCodeSize), in this order.
C12_SynthesizedEntriesAsStated ==
    pc \in {"fst", "dir", "ready"} =>
        /\ Len(files) >= 5
        /\ pc = "fst" => Len(files) = 5
        /\ Covers(1, BootBin, 0, 1088)
        /\ Covers(2, Bi2Bin, 1088, 8192)
        /\ Covers(3, FstBin, attrs.fstOffset, attrs.fstOffset + attrs.fstSize)
        /\ Covers(4, StartDol, attrs.dolOffset, attrs.fstOffset)
        /\ Covers(5, AppldrBin, 9312, 9312 + attrs.apploaderCodeSize)

\* C12 amended: the same with bi2.bin covering [0x440, 0x2440), 0x2000 bytes.
C12_SynthesizedEntries ==
    pc \in {"fst", "dir", "ready"} =>
        /\ Len(files) >= 5
        /\ pc = "fst" => Len(files) = 5
        /\ Covers(1, BootBin, 0, 1088)
        /\ Covers(2, Bi2Bin, 1088, 9280)
        /\ Covers(3, FstBin, attrs.fstOffset, attrs.fstOffset + attrs.fstSize)
        /\ Covers(4, StartDol, attrs.dolOffset, attrs.fstOffset)
        /\ Covers(5, AppldrBin, 9312, 9312 + attrs.apploaderCodeSize)

C12_Witness ==
    /\ pc = "ready" /\ Len(files) > 5
    /\ attrs.apploaderCodeSize > 0 /\ attrs.dolOffset < attrs.fstOffset
    /\ files[5].path = AppldrBin

\* the '/'-terminated form of a non-empty directory path
DirPrefix(p) == IF p[Len(p)] = Slash THEN p ELSE p \o <<Slash>>

\* the registered paths that start with `prefix`, in registry order, with
\* the prefix removed
RelativeTo(prefix) ==
    LET In(f) == StartsWith(f.path, prefix)
        sel == SelectSeq(files, In)
    IN  [k \in 1..Len(sel) |-> SubSeq(sel[k].path, Len(prefix) + 1, Len(sel[k].path))]

\* s is the start of t
IsPrefix(s, t) == Len(s) <= Len(t) /\ SubSeq(t, 1, Len(s)) = s

\* C13: for a non-empty bytes path p, the generator of listDir(p) yields
\* exactly the registered paths that start with p and '/', in registry
\* order, without that prefix, every time one is made and whatever the
\* caller does between two yields; isDir(p) is true exactly when there is
\* such a path.
C13_ListDirIsDir ==
    /\ (gen.state # "none" /\ gen.arg.bytes /\ gen.arg.s # <<>>) =>
          /\ gen.err \in {"none", "StopIteration"}
          /\ IsPrefix(gen.out, RelativeTo(DirPrefix(gen.arg.s)))
          /\ (gen.state = "done") => (gen.out = RelativeTo(DirPrefix(gen.arg.s)))
          /\ (gen.state = "suspended" /\ last.op = "next") =>
                (last.out = <<gen.out[Len(gen.out)]>>)
    /\ (last.op = "isDir" /\ last.path.bytes /\ last.path.s # <<>>) =>
          /\ last.err = "none"
          /\ last.bool <=> RelativeTo(DirPrefix(last.path.s)) # <<>>

C13_Witness ==
    /\ gen.state = "done" /\ gen.arg = Bytes(<<97>>)
    /\ last.op = "next" /\ last.err = "StopIteration"
    /\ Len(gen.out) = 2 /\ Len(files) > 7
    /\ writes > 0

\* the header words of the slots of one kind, as the data holds them
HeaderWords(at, n) == [k \in 1..n |-> UnpackU32(FileRead(dol.data, at + 4 * (k - 1), 4))]

\* the number of slots before the first one with a zero field
FirstEmpty(offsets, addresses, sizes) ==
    LET zero == {i \in 1..Len(offsets) :
                    offsets[i] = 0 \/ addresses[i] = 0 \/ sizes[i] = 0}
    IN  IF zero = {} THEN Len(offsets)
        ELSE (CHOOSE i \in zero : \A j \in zero : i <= j) - 1

\* the sections of one kind as C14 describes them
SlotsAsSections(kind, offsets, addresses, sizes) ==
    [i \in 1..FirstEmpty(offsets, addresses, sizes) |->
        [none |-> FALSE, index |-> i - 1, type |-> kind,
         dolOffset |-> offsets[i], endDolOffset |-> offsets[i] + sizes[i],
         memAddress |-> addresses[i], endMemAddress |-> addresses[i] + sizes[i],
         size |-> sizes[i]]]

\* C14: for each kind the sections are the slots 0..k-1, k the first slot
\* with a zero offset, address or size (the slot count if there is none),
\* each with its slot number as index and end = start + size, and `sections`
\* is the text sections followed by the data sections.
C14_SectionsAreLeadingSlots ==
    dol.built =>
        /\ dol.textSections =
              SlotsAsSections("text", HeaderWords(TextOffsetsAt, TextSlots),
                  HeaderWords(TextAddressesAt, TextSlots), HeaderWords(TextSizesAt, TextSlots))
        /\ dol.dataSections =
              SlotsAsSections("data", HeaderWords(DataOffsetsAt, DataSlots),
                  HeaderWords(DataAddressesAt, DataSlots), HeaderWords(DataSizesAt, DataSlots))
        /\ dol.sections = dol.textSections \o dol.dataSections
        /\ \A k \in 1..Len(dol.sections) :
              /\ dol.sections[k].dolOffset # 0
              /\ dol.sections[k].memAddress # 0
              /\ dol.sections[k].size # 0

C14_Witness ==
    /\ dol.built /\ dol.textSections = <<>> /\ Len(dol.dataSections) = 1
    /\ HeaderWords(TextOffsetsAt, TextSlots)[2] # 0
    /\ HeaderWords(TextAddressesAt, TextSlots)[2] # 0
    /\ HeaderWords(TextSizesAt, TextSlots)[2] # 0

\* the first section, in `sections` order, whose [start, start+size) holds x
FirstHolding(start, x) ==
    LET hits == {k \in 1..Len(dol.sections) :
                    dol.sections[k][start] <= x
                        /\ x < dol.sections[k][start] + dol.sections[k].size}
    IN  IF hits = {} THEN NoSection
        ELSE dol.sections[CHOOSE k \in hits : \A j \in hits : k <= j]

\* C15: getSectionByMemAddress(a) returns the first section in `sections`
\* order with memAddress <= a < memAddress+size, None when there is none;
\* getSectionByDolOffset the same over [dolOffset, dolOffset+size).
C15_FirstHoldingSection ==
    /\ last.op = "getSectionByMemAddress" =>
          last.err = "none" /\ last.section = FirstHolding("memAddress", last.offset)
    /\ last.op = "getSectionByDolOffset" =>
          last.err = "none" /\ last.section = FirstHolding("dolOffset", last.offset)

C15_Witness ==
    /\ last.op = "getSectionByMemAddress" /\ ~last.section.none
    /\ \E k \in 1..Len(dol.sections) :
          /\ dol.sections[k].endMemAddress = last.offset
          /\ dol.sections[k] # last.section
    /\ \E k \in 1..Len(dol.sections) :
          /\ dol.sections[k] # last.section
          /\ dol.sections[k].memAddress <= last.offset
          /\ last.offset < dol.sections[k].endMemAddress

\* the section after S in an ordering, NoSection when S is its last
Successor(order, S) ==
    IF IndexIn(order, S) < Len(order) THEN order[IndexIn(order, S) + 1] ELSE NoSection

\* whether a call of isMappedContiguous returned True
ReturnsTrue(start, end) ==
    /\ isMappedContiguous(dol, Some(start), Some(end)).err = "none"
    /\ isMappedContiguous(dol, Some(start), Some(end)).val

\* the definition C16 gives for a start that lies in section S
ContiguousAsDefined(start, end) ==
    LET S == FirstHolding("dolOffset", start)
        dolNext == Successor(dol.sectionsDolOrder, S)
        memNext == Successor(dol.sectionsMemOrder, S)
    IN  IF end <= S.endDolOffset THEN TRUE
        ELSE IF /\ ~dolNext.none /\ ~memNext.none /\ dolNext = memNext
                /\ dolNext.dolOffset = S.endDolOffset
                /\ dolNext.memAddress = S.endMemAddress
        THEN ReturnsTrue(dolNext.dolOffset, end)
        ELSE FALSE

\* C16: for a start offset that lies in a section S, isMappedContiguous
\* (start, end) returns the value of the reference definition: True if end <=
\* S.endDolOffset; else the value for (dolNext.dolOffset, end) when S's
\* successors in sectionsDolOrder and sectionsMemOrder are the same section
\* and it starts at S's end in both spaces; False in every other case.
C16_ContiguousAsDefined ==
    (last.op = "isMappedContiguous" /\ ~FirstHolding("dolOffset", last.offset).none) =>
        /\ last.err = "none"
        /\ last.bool <=> ContiguousAsDefined(last.offset, last.end)

\* C17: isMappedContiguous with a start in no section, and
\* isMappedContiguousMem with an s or e in no section, return (None) without
\* raising; for s and e both in sections isMappedContiguousMem(s, e) is
\* isMappedContiguous(memAddressToDolOffset(s), memAddressToDolOffset(e)).
C17_NotFoundPropagates ==
    /\ (last.op = "isMappedContiguous" /\ FirstHolding("dolOffset", last.offset).none) =>
          last.err = "none" /\ ~last.bool
    /\ (last.op = "isMappedContiguousMem"
            /\ (FirstHolding("memAddress", last.offset).none
                    \/ FirstHolding("memAddress", last.end).none)) =>
          last.err = "none" /\ ~last.bool
    /\ (last.op = "isMappedContiguousMem"
            /\ ~FirstHolding("memAddress", last.offset).none
            /\ ~FirstHolding("memAddress", last.end).none) =>
          [err |-> last.err, val |-> last.bool] =
              isMappedContiguous(dol, memAddressToDolOffset(dol, Some(last.offset)).opt,
                                 memAddressToDolOffset(dol, Some(last.end)).opt)

\* C18: when the start lies in section S and the end is S's exclusive end,
\* isMappedContiguous (end = S.endDolOffset) and isMappedContiguousMem (end =
\* S.endMemAddress) return True, wherever that end value lies.
C18_EndNeedNotBeMapped ==
    /\ (last.op = "isMappedContiguous"
            /\ ~FirstHolding("dolOffset", last.offset).none
            /\ last.end = FirstHolding("dolOffset", last.offset).endDolOffset) =>
          last.err = "none" /\ last.bool
    /\ (last.op = "isMappedContiguousMem"
            /\ ~FirstHolding("memAddress", last.offset).none
            /\ last.end = FirstHolding("memAddress", last.offset).endMemAddress) =>
          last.err = "none" /\ last.bool

\* no two sections share a position of the given space
Disjoint(start) ==
    \A j, k \in 1..Len(dol.sections) :
        j # k => \/ dol.sections[j][start] + dol.sections[j].size <= dol.sections[k][start]
                 \/ dol.sections[k][start] + dol.sections[k].size <= dol.sections[j][start]

\* C19 as stated: for every section table, if isMappedContiguous(a, b)
\* returns True then isMappedContiguous(a2, b2) returns True for every
\* a <= a2 < b2 <= b.
C19_ShrinkingAnyTable ==
    (last.op = "isMappedContiguous" /\ last.err = "none" /\ last.bool) =>
        \A a2 \in last.offset..last.end, b2 \in last.offset..last.end :
            a2 < b2 => ReturnsTrue(a2, b2)

\* C19 amended: the same for every section table whose sections are pairwise
\* disjoint in file space.
C19_Shrinking ==
    (last.op = "isMappedContiguous" /\ last.err = "none" /\ last.bool
        /\ Disjoint("dolOffset")) =>
        \A a2 \in last.offset..last.end, b2 \in last.offset..last.end :
            a2 < b2 => ReturnsTrue(a2, b2)

C19_Witness ==
    /\ last.op = "isMappedContiguous" /\ last.err = "none" /\ last.bool
    /\ Disjoint("dolOffset") /\ Len(dol.sections) = 3
    /\ last.end > FirstHolding("dolOffset", last.offset).endDolOffset + 1
    /\ last.offset > FirstHolding("dolOffset", last.offset).dolOffset

\* C20: for a table whose sections are pairwise disjoint in file space and
\* in memory space, if isMappedContiguous(start, end) returns True then every
\* x in [start, end) lies in a section and dolOffsetToMemAddress(x) -
\* dolOffsetToMemAddress(start) = x - start.
C20_TrueMeansGapFree ==
    (last.op = "isMappedContiguous" /\ last.err = "none" /\ last.bool
        /\ Disjoint("dolOffset") /\ Disjoint("memAddress")) =>
        \A x \in last.offset..(last.end - 1) :
            /\ ~FirstHolding("dolOffset", x).none
            /\ dolOffsetToMemAddress(dol, Some(x)).err = "none"
            /\ ~dolOffsetToMemAddress(dol, Some(x)).opt.none
            /\ dolOffsetToMemAddress(dol, Some(x)).opt.n
                  - dolOffsetToMemAddress(dol, Some(last.offset)).opt.n = x - last.offset

C20_Witness ==
    /\ last.op = "isMappedContiguous" /\ last.err = "none" /\ last.bool
    /\ Disjoint("dolOffset") /\ Disjoint("memAddress")
    /\ last.end > FirstHolding("dolOffset", last.offset).endDolOffset
    /\ FirstHolding("dolOffset", last.end - 1) # FirstHolding("dolOffset", last.offset)

-----------------------------------------------------------------------------
(* C21..C25 *)

\* C22: the root directory holds every file: listDir(b"/") yields every
\* registered path, isDir(b"/") is True when the registry is not empty, and
\* fileInDir(f, b"/") is True for every registered path f.
C22_RootHoldsEveryFile ==
    /\ (gen.state = "done" /\ gen.arg = Bytes(<<Slash>>)) =>
          /\ gen.err = "StopIteration"
          /\ Len(gen.out) = Len(files)
    /\ (last.op = "isDir" /\ last.path = Bytes(<<Slash>>) /\ files # <<>>) =>
          last.err = "none" /\ last.bool
    /\ pc = "ready" =>
          \A k \in 1..Len(files) :
              fileInDir(Bytes(files[k].path), Bytes(<<Slash>>)).val

\* C23: on a table whose sections are pairwise disjoint in file space and in
\* memory space, memAddressToDolOffset(a) = o (not None) gives
\* dolOffsetToMemAddress(o) = a, dolOffsetToMemAddress(o) = a (not None)
\* gives memAddressToDolOffset(a) = o, and a value in no section translates
\* to None.
C23_TranslationRoundTrip ==
    (Disjoint("dolOffset") /\ Disjoint("memAddress")) =>
        /\ last.op = "memAddressToDolOffset" =>
              /\ last.err = "none"
              /\ FirstHolding("memAddress", last.offset).none => last.opt.none
              /\ ~last.opt.none =>
                    dolOffsetToMemAddress(dol, last.opt) =
                        [err |-> "none", opt |-> Some(last.offset)]
        /\ last.op = "dolOffsetToMemAddress" =>
              /\ last.err = "none"
              /\ FirstHolding("dolOffset", last.offset).none => last.opt.none
              /\ ~last.opt.none =>
                    memAddressToDolOffset(dol, last.opt) =
                        [err |-> "none", opt |-> Some(last.offset)]

C23_Witness ==
    /\ last.op = "memAddressToDolOffset" /\ ~last.opt.none
    /\ Disjoint("dolOffset") /\ Disjoint("memAddress")
    /\ Len(dol.sections) = 3
    /\ last.offset > FirstHolding("memAddress", last.offset).memAddress
    /\ last.opt.n > last.offset
    /\ dol.sectionsDolOrder # dol.sectionsMemOrder

\* the starts of the activations grow strictly
Increasing(seq) == \A k \in 1..(Len(seq) - 1) : seq[k] < seq[k + 1]

\* C21: isMappedContiguous terminates for every decoded table and every
\* mapped start: every recursive call is made with a strictly larger start
\* than the one before, the depth never exceeds the number of sections, and
\* every call that was entered ends.
C21_ContiguityTerminates ==
    /\ []((last.op = "isMappedContiguous" /\ last.starts # <<>>
              /\ ~FirstHolding("dolOffset", last.offset).none) =>
            /\ Increasing(last.starts)
            /\ Len(last.starts) <= Len(dol.sections))
    /\ (last.active ~> ~last.active)

C21_Witness ==
    /\ last.op = "isMappedContiguous" /\ ~last.active /\ last.err = "none"
    /\ Len(last.starts) = 2 /\ ~Disjoint("dolOffset")
    /\ FirstHolding("dolOffset", last.starts[2]) #
          Successor(dol.sectionsDolOrder, FirstHolding("dolOffset", last.starts[1]))

\* C24: the FST traversal terminates on every table: after every child call
\* the index of the enclosing loop is strictly larger than before, and the
\* construction ends, with the registry built or with an exception.
C24_TraversalTerminates ==
    /\ [][(pc = "dir" /\ pc' = "dir" /\ Len(stack') <= Len(stack)) =>
            stack'[Len(stack')].i > stack[Len(stack')].i]_vars
    /\ <>(pc \in {"ready", "failed"})

\* the view the call in `last` was made on, as it was before the call
\* returned (only the cursor of a view ever changes)
OwnBytes(w, cur0, count, out) ==
    ExactBytes(iso, w.offset + cur0, ReadCount(w.size, cur0, count), out)

\* a call on one view, or a constructor run on it, leaves every other view
\* as it was, and the calls on the IsoFile leave all of them
OthersKept ==
    /\ (last'.op \in {"open", "seek", "tell", "read", "DolFile", "BannerFile"}) =>
          (\A w \in DOMAIN views : (w # last'.v) => (views'[w] = views[w]))
    /\ (last'.op \in {"readFile", "getDolFile", "getBannerFile", "close"}) =>
          (views' = views)

\* C25: whatever seek / tell / read calls on two views and readFile calls
\* came before (and whatever getDolFile, getBannerFile and constructor
\* calls moved the handle in between), a call on one view leaves the other
\* view as it was, the calls on the IsoFile leave both, and as long as the
\* handle is not closed every read gives what the view alone determines:
\* the error of its own cursor and extent, or the bytes of the container at
\* its own base + cursor and a cursor advanced by their number; where the
\* handle was left by the call before plays no part.
C25_ViewsIndependent ==
    /\ [][OthersKept]_vars
    /\ []((last.op = "read" /\ ~Closed(iso)) =>
            LET w == views[last.v]
            IN  /\ last.err = ReadError(w.size, last.cur0, last.count)
                /\ (last.err = "none") =>
                      (/\ OwnBytes(w, last.cur0, last.count, last.out)
                       /\ w.cursor = last.cur0 + Len(last.out))
                /\ (last.err # "none") => (w.cursor = last.cur0))
    /\ []((last.op = "readFile" /\ last.err = "none" /\ ~Closed(iso)) =>
            ExactBytes(iso, FilesGet(files, last.path.s).offset + last.offset,
                       ReadCount(FilesGet(files, last.path.s).size, last.offset, last.count),
                       last.out))

C25_Witness ==
    /\ last.op = "read" /\ last.v = 2 /\ last.err = "none"
    /\ last.cur0 > 0 /\ Len(last.out) > 0
    /\ views[1].open /\ views[1].offset # views[2].offset
    /\ views[1].cursor > 0 /\ views[1].cursor # views[2].cursor
    /\ iso.pos = views[2].offset + views[2].cursor
    /\ ~Closed(iso)

====
